---- MODULE Spec2Model ----
(***************************************************************************)
(* Model of the HornERP data-access layer (db_connector.py) and of the     *)
(* period-based reporting built on it (pos.py show_dashboard,              *)
(* excel_exporter.py export_to_excel, pdf_report.py                        *)
(* generate_business_report), and of the POS terminal's cart, discount    *)
(* and payment handlers (pos.py show_pos).                                 *)
(*                                                                         *)
(* Text is modelled as a sequence of character codes (ASCII), so that      *)
(* str.replace, LIKE-prefix matching and lexicographic comparison are      *)
(* computed on characters, as the code and the backends compute them.      *)
(***************************************************************************)
EXTENDS Integers, Sequences, FiniteSets, TLC

VARIABLES
    env,        \* process environment read at import: db_connector.py 6-13
    conn,       \* the SafeConnection handed out by DBHandler.get_connection
    db,         \* the backend's tables as this connection sees them
    committed,  \* the backend's tables as of the last commit
    cur,        \* the SafeCursor: last request, what the driver got, outcome
    input,      \* the query text and bind values a caller is about to execute
    out,        \* result of the last report run (dashboard / excel / pdf)
    app,        \* the HornERP object's fields: pos.py 60-65
    paid        \* history: subtotal and discount of each process_payment call on a non-empty cart

vars == <<env, conn, db, committed, cur, input, out, app, paid>>

(***************************************************************************)
(* Bounds                                                                  *)
(***************************************************************************)
MaxLen == 3        \* longest query text drawn for SafeCursor.execute
MaxParams == 2     \* longest bind-value list
MaxKey == 2        \* primary keys 1..MaxKey of the keyed table
MaxRows == 2       \* cap on rows inserted into the auto-id table
MaxSales == 2      \* most sales a store holds when a report runs

(***************************************************************************)
(* Characters                                                              *)
(***************************************************************************)
ChSpace == 32
ChPercent == 37
ChQuote == 39
ChDash == 45
ChZero == 48
ChColon == 58
ChQm == 63
ChS == 115

RECURSIVE SeqsUpTo(_, _)
SeqsUpTo(S, n) ==
    IF n = 0 THEN {<<>>}
    ELSE LET shorter == SeqsUpTo(S, n - 1)
         IN  shorter \cup {Append(s, c) : s \in {t \in shorter : Len(t) = n - 1}, c \in S}

\* number of (possibly adjacent) occurrences of the text pat in the text s
RECURSIVE CountSub(_, _)
CountSub(s, pat) ==
    IF Len(s) < Len(pat) THEN 0
    ELSE (IF SubSeq(s, 1, Len(pat)) = pat THEN 1 ELSE 0) + CountSub(Tail(s), pat)

RECURSIVE CountChar(_, _)
CountChar(s, c) ==
    IF s = <<>> THEN 0
    ELSE (IF Head(s) = c THEN 1 ELSE 0) + CountChar(Tail(s), c)

(***************************************************************************)
(* Python helpers                                                          *)
(***************************************************************************)
Unset == "<unset>"                       \* os.environ.get(...) -> None
Truthy(s) == s \notin {Unset, ""}        \* truth value of an optional string
PyOr(a, b) == IF Truthy(a) THEN a ELSE b \* a or b

(***************************************************************************)
(* db_connector.py                                                         *)
(***************************************************************************)
\* DATABASE_URL = os.environ.get("DATABASE_URL") or os.environ.get("RENDER")
DATABASE_URL == PyOr(env.DATABASE_URL, env.RENDER)

\* HAS_POSTGRES: whether "import psycopg2" succeeded
HAS_POSTGRES == env.psycopg2

NoConn == [state |-> "none", db_type |-> "none", sslmode |-> "none", timeout |-> 0, txn |-> "none"]

\* str.replace('?', '%s', 1): only the first '?' is rewritten
ReplaceFirstOnly(sql) ==
    IF \E i \in 1..Len(sql) : sql[i] = ChQm
        THEN LET i == CHOOSE k \in 1..Len(sql) :
                         sql[k] = ChQm /\ \A j \in 1..(k - 1) : sql[j] # ChQm
             IN  SubSeq(sql, 1, i - 1) \o <<ChPercent, ChS>> \o SubSeq(sql, i + 1, Len(sql))
        ELSE sql

\* str.replace('?', '%s'): every '?' becomes the two characters '%', 's'
RECURSIVE Replace(_)
Replace(sql) ==
    IF sql = <<>> THEN <<>>
    ELSE (IF Head(sql) = ChQm THEN <<ChPercent, ChS>> ELSE <<Head(sql)>>) \o Replace(Tail(sql))

\* first lines of SafeCursor.execute: the text handed to the native cursor
Translate(db_type, sql) == IF db_type = "postgres" THEN Replace(sql) ELSE sql

\* "if params:" -- a None or empty bind list is not passed to the driver at all
ParamsPassed(params) == params # <<>>

NoError == [type |-> "none"]
NoCursor == [sql |-> <<>>, params |-> <<>>, kind |-> "none",
             sentSql |-> <<>>, sentParams |-> <<>>, withParams |-> FALSE,
             outcome |-> "none", raised |-> NoError, log |-> <<>>,
             lastrowid |-> 0, rowid |-> 0]

\* the tables: keys/rows/seq stand for shop_settings and users (a keyed and an
\* auto-id table), the rest are the reporting tables init_db creates
EmptyDb == [keys |-> {}, rows |-> {}, seq |-> 0,
            sales |-> <<>>, items |-> {}, products |-> {},
            customers |-> {}, stock_logs |-> <<>>]

(***************************************************************************)
(* The backends (sqlite3 / psycopg2 as the adapter drives them)            *)
(***************************************************************************)
\* does the backend reject the statement in the current state?
NativeError(c, d, stmt) ==
    IF c.db_type = "postgres" /\ c.txn = "aborted"
        THEN [type |-> "InFailedSqlTransaction"]
    ELSE IF stmt.kind = "malformed"
        THEN [type |-> IF c.db_type = "postgres" THEN "SyntaxError" ELSE "OperationalError"]
    ELSE IF stmt.kind = "insert_key" /\ stmt.key \in d.keys
        THEN [type |-> IF c.db_type = "postgres" THEN "UniqueViolation" ELSE "IntegrityError"]
    ELSE NoError

\* tables after a statement the backend accepted
NativeApply(d, stmt) ==
    IF stmt.kind = "insert_key" THEN [d EXCEPT !.keys = @ \cup {stmt.key}]
    ELSE IF stmt.kind = "insert_auto"
        THEN [d EXCEPT !.rows = @ \cup {d.seq + 1}, !.seq = @ + 1]
    ELSE d

\* transaction state of the native connection after a statement
NativeTxn(c, stmt, failed) ==
    IF c.db_type = "postgres"
        THEN (IF failed THEN "aborted" ELSE "active")
    ELSE \* sqlite3 opens a transaction before DML only; an error leaves it usable
         (IF ~failed /\ stmt.kind \in {"insert_key", "insert_auto"} THEN "active" ELSE c.txn)

\* the native cursor's lastrowid after a successful statement: sqlite3 sets it
\* to the rowid of the inserted row; psycopg2 reports the row's OID, which is 0
\* for the tables init_db creates (no OIDs)
NativeLastrowid(c, k, stmt, d2) ==
    IF stmt.kind # "insert_auto" THEN k.lastrowid
    ELSE IF c.db_type = "sqlite" THEN d2.seq
    ELSE 0

\* DBHandler.get_connection: the adapters it can return.  psycopg2.connect
\* raises when the server cannot be reached over TLS, and always for RENDER's
\* "true", which is not a DSN; the except branch then returns None
ConnectOutcomes ==
    IF Truthy(DATABASE_URL) /\ HAS_POSTGRES
      THEN {[NoConn EXCEPT !.state = "failed"]}
           \cup (IF DATABASE_URL = "true" THEN {}
                 ELSE {[state |-> "open", db_type |-> "postgres",
                        sslmode |-> "require", timeout |-> 0, txn |-> "idle"]})
      ELSE {[state |-> "open", db_type |-> "sqlite",
             sslmode |-> "none", timeout |-> 30, txn |-> "idle"]}

\* conn = DBHandler.get_connection()
GetConnection ==
    /\ conn.state = "none"
    /\ conn' \in ConnectOutcomes
    /\ UNCHANGED <<env, db, committed, cur, input, out, app, paid>>

\* SafeCursor.execute(sql, params)
SafeCursorExecute(stmt) ==
    /\ conn.state = "open"
    /\ stmt.kind = "insert_auto" => db.seq < MaxRows
    /\ LET sql == Translate(conn.db_type, stmt.sql)
           err == NativeError(conn, db, stmt)
           failed == err # NoError
           db2 == IF failed THEN db ELSE NativeApply(db, stmt)
       IN  /\ db' = db2
           /\ conn' = [conn EXCEPT !.txn = NativeTxn(conn, stmt, failed)]
           /\ cur' = [sql |-> stmt.sql, params |-> stmt.params, kind |-> stmt.kind,
                      sentSql |-> sql,
                      sentParams |-> IF ParamsPassed(stmt.params) THEN stmt.params ELSE <<>>,
                      withParams |-> ParamsPassed(stmt.params),
                      outcome |-> IF failed THEN "raised" ELSE "returned",
                      raised |-> err,                                   \* raise e
                      log |-> IF failed THEN <<conn.db_type, err.type, sql>> ELSE <<>>,
                      lastrowid |-> IF failed THEN cur.lastrowid
                                    ELSE NativeLastrowid(conn, cur, stmt, db2),
                      rowid |-> IF ~failed /\ stmt.kind = "insert_auto" THEN db2.seq ELSE 0]
    /\ UNCHANGED <<env, committed, input, out, app, paid>>

\* SafeConnection.execute(sql, params): a fresh cursor, then its execute
SafeConnectionExecute(stmt) == SafeCursorExecute(stmt)

\* SafeCursor.lastrowid
Lastrowid == cur.lastrowid

\* SafeConnection.commit
Commit ==
    /\ conn.state = "open"
    /\ conn.txn # "idle"
    /\ conn' = [conn EXCEPT !.txn = "idle"]
    /\ IF conn.txn = "aborted"
         THEN db' = [committed EXCEPT !.seq = db.seq]      \* COMMIT of a failed transaction rolls back
         ELSE db' = db
    /\ committed' = db'
    /\ cur' = [cur EXCEPT !.outcome = "none"]
    /\ UNCHANGED <<env, input, out, app, paid>>

\* SafeConnection.rollback (called by the caller, never by the adapter)
Rollback ==
    /\ conn.state = "open"
    /\ conn.txn # "idle"
    /\ conn' = [conn EXCEPT !.txn = "idle"]
    /\ db' = IF conn.db_type = "postgres"
               THEN [committed EXCEPT !.seq = db.seq]      \* sequences are not rolled back
               ELSE committed
    /\ cur' = [cur EXCEPT !.outcome = "none"]
    /\ UNCHANGED <<env, committed, input, out, app, paid>>

\* SafeConnection.close: uncommitted work is discarded
Close ==
    /\ conn.state = "open"
    /\ conn' = [conn EXCEPT !.state = "closed", !.txn = "none"]
    /\ db' = IF conn.db_type = "postgres" THEN [committed EXCEPT !.seq = db.seq] ELSE committed
    /\ cur' = NoCursor
    /\ UNCHANGED <<env, committed, input, out, app, paid>>

(***************************************************************************)
(* Civil time: get_pak_time and strftime                                   *)
(***************************************************************************)
\* the clock counts hours (UTC) from the first day of EpochMonth
EpochMonth == <<2023, 12>>

IsLeap(y) == (y % 4 = 0 /\ y % 100 # 0) \/ y % 400 = 0
DaysInMonth(y, m) ==
    IF m = 2 THEN (IF IsLeap(y) THEN 29 ELSE 28)
    ELSE IF m \in {4, 6, 9, 11} THEN 30 ELSE 31

\* the civil date <<year, month, day>> n days after the first of month m of y
RECURSIVE DateFrom(_, _, _)
DateFrom(y, m, n) ==
    IF n < DaysInMonth(y, m) THEN <<y, m, n + 1>>
    ELSE DateFrom(IF m = 12 THEN y + 1 ELSE y, IF m = 12 THEN 1 ELSE m + 1,
                  n - DaysInMonth(y, m))
DateOf(day) == DateFrom(EpochMonth[1], EpochMonth[2], day)

\* datetime.now() without the timezone: the mutation of get_pak_time
get_utc_time(utc) == utc

\* get_pak_time(): datetime.now(timezone(timedelta(hours=5))), in hours
get_pak_time(utc) == utc + 5

DayOfTime(t) == t \div 24
HourOfTime(t) == t % 24
\* now + datetime.timedelta(days=n): a mutation of MinusDays
PlusDays(t, n) == t + 24 * n

\* now - datetime.timedelta(days=n)
MinusDays(t, n) == t - 24 * n

Digit(n) == ChZero + n
Fmt2(n) == <<Digit((n \div 10) % 10), Digit(n % 10)>>
Fmt4(n) == <<Digit((n \div 1000) % 10), Digit((n \div 100) % 10)>> \o Fmt2(n % 100)

\* strftime("%Y-%m")
StrfMonth(t) ==
    LET d == DateOf(DayOfTime(t)) IN Fmt4(d[1]) \o <<ChDash>> \o Fmt2(d[2])
\* strftime("%Y-%m-%d")
StrfDate(t) ==
    LET d == DateOf(DayOfTime(t)) IN StrfMonth(t) \o <<ChDash>> \o Fmt2(d[3])
\* strftime("%Y-%m-%d %H:%M:%S"), on the hour
StrfTimestamp(t) ==
    StrfDate(t) \o <<ChSpace>> \o Fmt2(HourOfTime(t))
        \o <<ChColon>> \o Fmt2(0) \o <<ChColon>> \o Fmt2(0)

(***************************************************************************)
(* Text comparison as the backends perform it                              *)
(***************************************************************************)
\* a >= b for TEXT values: code-point order, a proper prefix sorts first
RECURSIVE TextGe(_, _)
TextGe(a, b) ==
    IF b = <<>> THEN TRUE
    ELSE IF a = <<>> THEN FALSE
    ELSE IF Head(a) # Head(b) THEN Head(a) > Head(b)
    ELSE TextGe(Tail(a), Tail(b))

\* text LIKE pattern, '%' matching any run of characters
RECURSIVE LikeMatch(_, _)
LikeMatch(text, pat) ==
    IF pat = <<>> THEN text = <<>>
    ELSE IF Head(pat) = ChPercent
        THEN \E k \in 0..Len(text) : LikeMatch(SubSeq(text, k + 1, Len(text)), Tail(pat))
    ELSE text # <<>> /\ Head(text) = Head(pat) /\ LikeMatch(Tail(text), Tail(pat))

\* value of a run of decimal digits
RECURSIVE NumberOf(_)
NumberOf(digits) ==
    IF digits = <<>> THEN 0
    ELSE 10 * NumberOf(SubSeq(digits, 1, Len(digits) - 1)) + (digits[Len(digits)] - ChZero)

\* 'YYYY-MM-DD...' read as a calendar date (the networked backend's date type)
ParseDate(text) ==
    <<NumberOf(SubSeq(text, 1, 4)), NumberOf(SubSeq(text, 6, 7)), NumberOf(SubSeq(text, 9, 10))>>
DateGe(a, b) ==
    \/ a[1] > b[1]
    \/ a[1] = b[1] /\ a[2] > b[2]
    \/ a[1] = b[1] /\ a[2] = b[2] /\ a[3] >= b[3]

(***************************************************************************)
(* Period resolution                                                       *)
(***************************************************************************)
\* a WHERE fragment  <expr> <op> '<lit>'  kept as its three parts
Clause(expr, op, lit) == [expr |-> expr, op |-> op, lit |-> lit]

\* str.replace('date_created', 's.date_created') on a fragment
QualifyColumn(w) ==
    [w EXCEPT !.expr = IF @ = "CAST(date_created AS TEXT)" THEN "CAST(s.date_created AS TEXT)"
                       ELSE IF @ = "date(date_created)" THEN "date(s.date_created)"
                       ELSE @]
\* str.replace('s.date_created', 'date_created') on a fragment
UnqualifyColumn(w) ==
    [w EXCEPT !.expr = IF @ = "CAST(s.date_created AS TEXT)" THEN "CAST(date_created AS TEXT)"
                       ELSE IF @ = "date(s.date_created)" THEN "date(date_created)"
                       ELSE @]

NoLabel == <<"", <<>>>>
Unbound == [expr |-> "<unbound>", op |-> "", lit |-> <<>>]

\* show_dashboard, "DATE LOGIC": no else branch, where_clause stays unbound
DashboardResolve(period, utc) ==
    LET now == get_pak_time(utc)
        today_str == StrfDate(now)
        month_str == StrfMonth(now)
    IN  IF period = "Daily"
          THEN [bound |-> TRUE, label |-> NoLabel,
                where |-> Clause("CAST(date_created AS TEXT)", "LIKE", today_str \o <<ChPercent>>)]
        ELSE IF period = "Weekly"
          THEN [bound |-> TRUE, label |-> NoLabel,
                where |-> Clause("date(date_created)", ">=", StrfDate(MinusDays(now, 7)))]
        ELSE IF period = "Monthly"
          THEN [bound |-> TRUE, label |-> NoLabel,
                where |-> Clause("CAST(date_created AS TEXT)", "LIKE", month_str \o <<ChPercent>>)]
        ELSE [bound |-> FALSE, label |-> NoLabel, where |-> Unbound]

\* export_to_excel, "Filter Logic": the fragment is written against s.date_created
ExcelResolve(period, utc) ==
    LET now_pak == get_pak_time(utc)
        today_str == StrfDate(now_pak)
        month_str == StrfMonth(now_pak)
        date_col_cast == "CAST(s.date_created AS TEXT)"
    IN  IF period = "Daily"
          THEN [bound |-> TRUE, label |-> NoLabel,
                where |-> Clause(date_col_cast, "LIKE", today_str \o <<ChPercent>>)]
        ELSE IF period = "Weekly"
          THEN [bound |-> TRUE, label |-> NoLabel,
                where |-> Clause(date_col_cast, ">=", StrfDate(MinusDays(now_pak, 7)))]
        ELSE IF period = "Monthly"
          THEN [bound |-> TRUE, label |-> NoLabel,
                where |-> Clause(date_col_cast, "LIKE", month_str \o <<ChPercent>>)]
        ELSE [bound |-> TRUE, label |-> NoLabel,
              where |-> Clause(date_col_cast, "LIKE", today_str \o <<ChPercent>>)]

\* generate_business_report, "Logic for Period"
PdfResolve(period, utc) ==
    LET now_pak == get_pak_time(utc)
        today_str == StrfDate(now_pak)
        month_str == StrfMonth(now_pak)
        date_col_cast == "CAST(date_created AS TEXT)"
    IN  IF period = "Daily"
          THEN [bound |-> TRUE, label |-> <<"Daily Report", today_str>>,
                where |-> Clause(date_col_cast, "LIKE", today_str \o <<ChPercent>>)]
        ELSE IF period = "Weekly"
          THEN LET start_date == StrfDate(MinusDays(now_pak, 7))
               IN  [bound |-> TRUE, label |-> <<"Weekly Report (Since", start_date>>,
                    where |-> Clause(date_col_cast, ">=", start_date)]
        ELSE IF period = "Monthly"
          THEN [bound |-> TRUE, label |-> <<"Monthly Report", month_str>>,
                where |-> Clause(date_col_cast, "LIKE", month_str \o <<ChPercent>>)]
        ELSE [bound |-> TRUE, label |-> <<"Daily Report", today_str>>,
              where |-> Clause(date_col_cast, "LIKE", today_str \o <<ChPercent>>)]

\* EvalClause with ">=" evaluated as ">": the mutation of EvalClause
EvalClauseStrict(db_type, w, date_created) ==
    IF w.expr \in {"CAST(date_created AS TEXT)", "CAST(s.date_created AS TEXT)"}
      THEN IF w.op = "LIKE" THEN LikeMatch(date_created, w.lit)
           ELSE TextGe(date_created, w.lit) /\ date_created # w.lit
    ELSE IF db_type = "postgres"
      THEN DateGe(ParseDate(date_created), ParseDate(w.lit))
           /\ ParseDate(date_created) # ParseDate(w.lit)
    ELSE TextGe(SubSeq(date_created, 1, 10), w.lit) /\ SubSeq(date_created, 1, 10) # w.lit

\* does the backend select a row with this date_created under the fragment?
\* CAST(.. AS TEXT) yields the stored 'YYYY-MM-DD HH:MM:SS' on both backends;
\* date(..) yields the text 'YYYY-MM-DD' on the embedded backend and a calendar
\* date on the networked one, where the literal is read as a date as well
EvalClause(db_type, w, date_created) ==
    IF w.expr \in {"CAST(date_created AS TEXT)", "CAST(s.date_created AS TEXT)"}
      THEN IF w.op = "LIKE" THEN LikeMatch(date_created, w.lit)
           ELSE TextGe(date_created, w.lit)
    ELSE IF db_type = "postgres"
      THEN DateGe(ParseDate(date_created), ParseDate(w.lit))
    ELSE TextGe(SubSeq(date_created, 1, 10), w.lit)

(***************************************************************************)
(* SQL and Python helpers of the aggregation queries                       *)
(***************************************************************************)
Null == <<>>                 \* SQL NULL / Python None
Some(v) == <<v>>

RECURSIVE SumOver(_)
SumOver(f) ==
    IF DOMAIN f = {} THEN 0
    ELSE LET x == CHOOSE y \in DOMAIN f : TRUE
         IN  f[x] + SumOver([y \in DOMAIN f \ {x} |-> f[y]])
SetSum(S, V(_)) == SumOver([r \in S |-> V(r)])

\* SUM(..) over the selected rows: NULL when there is none
SqlSum(S, V(_)) == IF S = {} THEN Null ELSE Some(SetSum(S, V))

\* res[0] without the "else 0.0": the mutation of PyOrZero
PyRaw(res) == res

\* "res[0] if res and res[0] else 0.0"
PyOrZero(res) == IF res = Null \/ res[1] = 0 THEN Some(0) ELSE res

\* the orders a backend may return the rows of S in, given ORDER BY's relation
RECURSIVE Perms(_)
Perms(S) == IF S = {} THEN {<<>>}
            ELSE UNION {{<<x>> \o f : f \in Perms(S \ {x})} : x \in S}
\* (Leq is a total preorder: a row may come first iff no row must precede it)
OrderedBy(S, Leq(_, _)) ==
    LET RECURSIVE ord(_)
        ord(T) == IF T = {} THEN {<<>>}
                  ELSE UNION {{<<x>> \o f : f \in ord(T \ {x})} :
                                 x \in {y \in T : \A z \in T : Leq(y, z)}}
    IN  ord(S)
AnyOrder(a, b) == TRUE
\* LIMIT n
Limit(f, n) == SubSeq(f, 1, IF Len(f) < n THEN Len(f) ELSE n)

Range(f) == {f[i] : i \in DOMAIN f}

\* the sales the fragment selects
Selected(db_type, w, S) == {s \in Range(S.sales) : EvalClause(db_type, w, s.date_created)}
\* offline_sale_items i JOIN offline_sales s ON i.sale_id = s.id WHERE <fragment>
JoinedItems(db_type, w, S) ==
    {i \in S.items : \E s \in Selected(db_type, w, S) : s.id = i.sale_id}

Amount(s) == s.total_amount
\* i.price alone, the quantity forgotten: a mutation of LineTotal
UnitPrice(i) == i.price
LineTotal(i) == i.quantity * i.price
Quantity(i) == i.quantity

\* GROUP BY name with SUM(value): one <<name, sum>> row per name
GroupSum(R, K(_), V(_)) ==
    {<<k, SetSum({r \in R : K(r) = k}, V)>> : k \in {K(r) : r \in R}}
ProductName(i) == i.product_name
CashierName(s) == s.cashier_name
CustomerName(s) == s.customer_name
SecondDesc(a, b) == a[2] >= b[2]           \* ORDER BY <sum> DESC

\* SELECT SUM(total_amount) FROM offline_sales WHERE <fragment>
NetRevenue(db_type, w, S) == PyOrZero(SqlSum(Selected(db_type, w, S), Amount))
\* SELECT SUM(i.quantity * i.price) FROM items JOIN sales WHERE <fragment>
GrossRevenue(db_type, w, S) == PyOrZero(SqlSum(JoinedItems(db_type, w, S), LineTotal))
\* product_name, SUM(quantity) ... ORDER BY qty DESC LIMIT 5
TopProducts(db_type, w, S) ==
    {Limit(f, 5) : f \in OrderedBy(GroupSum(JoinedItems(db_type, w, S), ProductName, Quantity), SecondDesc)}
\* product_name, SUM(price * quantity) ... ORDER BY revenue DESC LIMIT 5
ProductRevenue(db_type, w, S) ==
    {Limit(f, 5) : f \in OrderedBy(GroupSum(JoinedItems(db_type, w, S), ProductName, LineTotal), SecondDesc)}
\* cashier_name, SUM(total_amount) ... GROUP BY cashier_name
EmployeeStats(db_type, w, S) ==
    OrderedBy(GroupSum(Selected(db_type, w, S), CashierName, Amount), AnyOrder)
\* customer_name, SUM(total_amount) ... ORDER BY SUM(total_amount) DESC LIMIT 5
CustomerStats(db_type, w, S) ==
    {Limit(f, 5) : f \in OrderedBy(GroupSum(Selected(db_type, w, S), CustomerName, Amount), SecondDesc)}

\* SELECT name, stock FROM products WHERE stock < 10 ORDER BY stock ASC LIMIT 5
StockAsc(a, b) == a.stock <= b.stock
\* the alert restricted to products that were sold: a mutation of LowStock
LowStockSold(S) ==
    {Limit([k \in 1..Len(f) |-> <<f[k].name, f[k].stock>>], 5) :
        f \in OrderedBy({q \in S.products :
                            q.stock < 10 /\ \E i \in S.items : i.product_name = q.name},
                        StockAsc)}
\* the alert with "stock <= 10": a mutation of LowStock
LowStockInclusive(S) ==
    {Limit([k \in 1..Len(f) |-> <<f[k].name, f[k].stock>>], 5) :
        f \in OrderedBy({q \in S.products : q.stock <= 10}, StockAsc)}
LowStock(S) ==
    {Limit([k \in 1..Len(f) |-> <<f[k].name, f[k].stock>>], 5) :
        f \in OrderedBy({q \in S.products : q.stock < 10}, StockAsc)}

\* "Expiry Guard": date(expiry_date) BETWEEN date('now') AND date('now', '+7 days');
\* date('now') is the backend's UTC date, and the two-argument date() exists on
\* the embedded backend only
Expiring(db_type, utc, S) ==
    IF db_type = "postgres" THEN {<<>>}                    \* except: expiring_items = []
    ELSE {[k \in 1..Len(f) |-> <<f[k].name, f[k].expiry_date>>] :
            f \in OrderedBy({q \in S.products : /\ q.expiry_date # <<>>
                                                 /\ TextGe(q.expiry_date, StrfDate(utc))
                                                 /\ TextGe(StrfDate(utc + 24 * 7), q.expiry_date)},
                            AnyOrder)}

\* SELECT ... FROM stock_logs ORDER BY id DESC LIMIT 6
Reverse(f) == [i \in 1..Len(f) |-> f[Len(f) + 1 - i]]
RecentLogs(S) == Limit(Reverse(S.stock_logs), 6)

\* date(date_created) as the driver hands it back: text on the embedded
\* backend, a calendar date on the networked one
DateValue(db_type, date_created) ==
    IF db_type = "postgres" THEN ParseDate(date_created) ELSE SubSeq(date_created, 1, 10)
DayKey(s) == SubSeq(s.date_created, 1, 10)
FirstDesc(a, b) == TextGe(a[1], b[1])
\* date(date_created) as d, SUM(total_amount) GROUP BY d ORDER BY d DESC LIMIT 7
TrendByDay(db_type, S) ==
    LET rows == Limit(CHOOSE f \in OrderedBy(GroupSum(Range(S.sales), DayKey, Amount), FirstDesc) : TRUE, 7)
    IN  [k \in 1..Len(rows) |-> <<DateValue(db_type, rows[k][1]), rows[k][2]>>]
\* the fallback: date_created, total_amount ORDER BY id DESC LIMIT 50
RawRecentSales(S) ==
    Limit([k \in 1..Len(S.sales) |-> <<S.sales[Len(S.sales) + 1 - k].date_created,
                                        S.sales[Len(S.sales) + 1 - k].total_amount>>], 50)

\* str(row[0]): a calendar date prints as 'YYYY-MM-DD', text as itself
PyStr(v) ==
    IF Len(v) = 3 THEN Fmt4(v[1]) \o <<ChDash>> \o Fmt2(v[2]) \o <<ChDash>> \o Fmt2(v[3])
    ELSE v
\* "Chart 1": one bar per row of trend_data, labelled str(row[0])[:10][5:],
\* drawn oldest first, whichever of the two queries produced the rows
TrendBars(trend_data) ==
    Reverse([k \in 1..Len(trend_data) |->
                <<SubSeq(SubSeq(PyStr(trend_data[k][1]), 1, 10), 6, 10), trend_data[k][2]>>])

(***************************************************************************)
(* The three report consumers                                              *)
(***************************************************************************)
DashboardQueries == {"revenue", "sales_count", "customers", "top_sellers", "recent_logs",
                     "low_stock", "employee", "customer", "product_revenue", "expiry"}
ExcelQueries == {"inventory", "sales", "net"}
PdfQueries == {"net", "gross", "trend", "top_products", "detail"}

\* a - b on query results
PyMinus(a, b) == IF a = Null \/ b = Null THEN Null ELSE Some(a[1] - b[1])

Ids(R) == {r.id : r \in R}

\* HornERP.show_dashboard(period), data fetching part; fail names the query the
\* backend rejects during this run ("none": no query is rejected)
ShowDashboard(period, utc, fail) ==
    /\ \E c \in ConnectOutcomes :
        LET r == DashboardResolve(period, utc)
            S == committed
            t == c.db_type
            base == [consumer |-> "dashboard", period |-> period, utc |-> utc,
                     db_type |-> t, connected |-> c.state = "open", fail |-> fail,
                     bound |-> r.bound, where |-> r.where, label |-> r.label]
        IN  IF c.state # "open" \/ ~r.bound \/ fail \in DashboardQueries \ {"expiry"}
              \* except Exception: "Dashboard Error" page; conn.close() is skipped
              THEN out' = base @@ [ok |-> FALSE, closed |-> c.state # "open"]
              ELSE \E top \in TopProducts(t, QualifyColumn(r.where), S),
                      emp \in EmployeeStats(t, r.where, S),
                      cust \in CustomerStats(t, r.where, S),
                      rev \in ProductRevenue(t, QualifyColumn(r.where), S),
                      low \in LowStock(S),
                      exp \in (IF fail = "expiry" THEN {<<>>} ELSE Expiring(t, utc, S)) :
                    out' = base @@
                        [ok |-> TRUE, closed |-> TRUE,
                         matched |-> Ids(Selected(t, r.where, S)),
                         revenue_amt |-> NetRevenue(t, r.where, S),
                         sales_count |-> Cardinality(Selected(t, r.where, S)),
                         total_customers |-> Cardinality(S.customers),
                         top_sellers |-> top,
                         recent_logs |-> RecentLogs(S),
                         low_stock_items |-> low,
                         employee_stats |-> emp,
                         customer_stats |-> cust,
                         product_revenue_stats |-> rev,
                         expiring_items |-> exp]
    /\ UNCHANGED <<env, conn, db, committed, cur, input, app, paid>>

TextLe(a, b) == TextGe(b, a)
CategoryThenName(a, b) ==
    \/ a.category # b.category /\ TextLe(a.category, b.category)
    \/ a.category = b.category /\ TextLe(a.name, b.name)
NameOnly(a, b) == TextLe(a.name, b.name)
General == <<71, 101, 110, 101, 114, 97, 108>>
\* SELECT barcode, name, category, price, stock, expiry_date FROM products ORDER BY category, name
Inventory(S) == OrderedBy(S.products, CategoryThenName)
\* SELECT barcode, name, 'General', price, stock, '' FROM products ORDER BY name
InventoryFallback(S) ==
    OrderedBy({[p EXCEPT !.category = General, !.expiry_date = <<>>] : p \in S.products}, NameOnly)

\* items JOIN sales LEFT JOIN products p ON i.product_name = p.name WHERE <fragment>:
\* one row per matching product, or one row without a product
ExcelSalesRows(db_type, w, S) ==
    LET row(i, s, cat, pk) ==
            [item |-> i.id, product |-> pk,
             date_created |-> s.date_created, cashier_name |-> s.cashier_name,
             customer_name |-> s.customer_name, category |-> cat,
             product_name |-> i.product_name, quantity |-> i.quantity,
             price |-> i.price, line_total |-> i.quantity * i.price]
        sale(i) == CHOOSE s \in Range(S.sales) : s.id = i.sale_id
        coalesce(cat) == IF cat = Null THEN General ELSE cat
    IN  UNION {IF \E p \in S.products : p.name = i.product_name
                 THEN {row(i, sale(i), coalesce(p.category), p.barcode) :
                          p \in {q \in S.products : q.name = i.product_name}}
                 ELSE {row(i, sale(i), General, "")} : i \in JoinedItems(db_type, w, S)}
DateDesc(a, b) == TextGe(a.date_created, b.date_created)
RowTotal(r) == r.line_total

\* excel_exporter.export_to_excel(period), with openpyxl available
ExportToExcel(period, utc, fail) ==
    /\ \E c \in ConnectOutcomes :
        LET r == ExcelResolve(period, utc)
            S == committed
            t == c.db_type
            base == [consumer |-> "excel", period |-> period, utc |-> utc,
                     db_type |-> t, connected |-> c.state = "open", fail |-> fail,
                     bound |-> r.bound, where |-> r.where, label |-> r.label]
        IN  IF c.state # "open"
              THEN out' = base @@ [ok |-> FALSE, closed |-> TRUE]      \* return None
              ELSE \E inv \in (IF fail = "inventory" THEN InventoryFallback(S) ELSE Inventory(S)),
                      sales_data \in (IF fail = "sales" THEN {<<>>}
                                      ELSE OrderedBy(ExcelSalesRows(t, r.where, S), DateDesc)) :
                    LET net_revenue == IF fail = "net" THEN Some(0)
                                       ELSE NetRevenue(t, UnqualifyColumn(r.where), S)
                        gross_revenue == Some(SetSum(Range(sales_data), RowTotal))
                    IN  out' = base @@
                            [ok |-> TRUE, closed |-> TRUE,
                             matched |-> Ids(Selected(t, r.where, S)),
                             inventory_data |-> inv,
                             sales_data |-> sales_data,
                             net_revenue |-> net_revenue,
                             gross_revenue |-> gross_revenue,
                             discount_total |-> PyMinus(gross_revenue, net_revenue)]
    /\ UNCHANGED <<env, conn, db, committed, cur, input, app, paid>>

\* s.id, s.date_created, s.customer_name, i.product_name, i.quantity, i.price
\* ... ORDER BY s.id ASC
DetailRows(db_type, w, S) ==
    {[item |-> i.id, id |-> i.sale_id,
      date_created |-> (CHOOSE s \in Range(S.sales) : s.id = i.sale_id).date_created,
      customer_name |-> (CHOOSE s \in Range(S.sales) : s.id = i.sale_id).customer_name,
      product_name |-> i.product_name, quantity |-> i.quantity, price |-> i.price]
        : i \in JoinedItems(db_type, w, S)}
SaleIdAsc(a, b) == a.id <= b.id

\* pdf_report.generate_business_report(shop_name, period), data fetching part,
\* with the FPDF library available
GenerateBusinessReport(period, utc, fail) ==
    /\ \E c \in ConnectOutcomes :
        LET r == PdfResolve(period, utc)
            S == committed
            t == c.db_type
            p_filter == QualifyColumn(r.where)
            base == [consumer |-> "pdf", period |-> period, utc |-> utc,
                     db_type |-> t, connected |-> c.state = "open", fail |-> fail,
                     bound |-> r.bound, where |-> r.where, label |-> r.label]
        IN  IF c.state # "open" \/ fail \in PdfQueries \ {"trend"}
              \* except Exception: return "Error: ..."; conn.close() is skipped
              THEN out' = base @@ [ok |-> FALSE, closed |-> c.state # "open"]
              ELSE \E top \in TopProducts(t, p_filter, S),
                      detail \in OrderedBy(DetailRows(t, p_filter, S), SaleIdAsc) :
                    LET revenue_amt == NetRevenue(t, r.where, S)
                        gross_amt == GrossRevenue(t, p_filter, S)
                    IN  out' = base @@
                            [ok |-> TRUE, closed |-> TRUE,
                             matched |-> Ids(Selected(t, r.where, S)),
                             revenue_amt |-> revenue_amt,
                             gross_amt |-> gross_amt,
                             discounts |-> PyMinus(gross_amt, revenue_amt),
                             trend_data |-> IF fail = "trend" THEN RawRecentSales(S)
                                            ELSE TrendByDay(t, S),
                             trend_chart |-> TrendBars(IF fail = "trend" THEN RawRecentSales(S)
                                                       ELSE TrendByDay(t, S)),
                             top_products |-> top,
                             sales_data |-> detail]
    /\ UNCHANGED <<env, conn, db, committed, cur, input, app, paid>>

(***************************************************************************)
(* Inputs                                                                  *)
(***************************************************************************)
EnvValues == [DATABASE_URL : {Unset, "", "postgres://db"},
              RENDER : {Unset, "true"},
              psycopg2 : BOOLEAN]

BindValues == {7, 8}
ParamLists == SeqsUpTo(BindValues, MaxParams)

\* statements the application issues, with the table effect they have:
\*  "I??"  INSERT INTO shop_settings VALUES (?, ?)          (pos.py 107)
\*  "A"    INSERT INTO users (...) VALUES ('Admin', ...)    (pos.py 100)
\*  "S?"   SELECT value FROM shop_settings WHERE key=?      (pos.py 124)
\*  "X"    a statement the backend cannot parse
AppStatements ==
    {[sql |-> <<73, ChQm, ChQm>>, params |-> <<k, 7>>, kind |-> "insert_key", key |-> k] : k \in 1..MaxKey}
    \cup {[sql |-> <<65>>, params |-> <<>>, kind |-> "insert_auto", key |-> 0]}
    \cup {[sql |-> <<83, ChQm>>, params |-> <<k>>, kind |-> "select", key |-> k] : k \in 1..MaxKey}
    \cup {[sql |-> <<88>>, params |-> <<>>, kind |-> "malformed", key |-> 0]}

\* arbitrary query texts over '?', quote, '%' and 's'
SqlAlphabet == {ChQm, ChQuote, ChPercent, ChS}
SqlTexts == SeqsUpTo(SqlAlphabet, MaxLen)
TextStatements ==
    [sql : SqlTexts, params : ParamLists, kind : {"select", "malformed"}, key : {0}]

NoOut == [consumer |-> "none"]
\* HornERP.__init__, "Global State"
EmptyCart == <<>>
WalkInClient == "Walk-in Client"
NoApp == [user |-> "", customer |-> WalkInClient, cart |-> EmptyCart,
          held_orders |-> <<>>, discount |-> 0, snack |-> "",
          last_receipt_data |-> <<>>]
NoInput == [sql |-> <<>>, params |-> <<>>, kind |-> "none", key |-> 0]

InitAdapter ==
    /\ env \in EnvValues
    /\ conn = NoConn
    /\ db = EmptyDb
    /\ committed = EmptyDb
    /\ cur = NoCursor
    /\ input = NoInput
    /\ out = NoOut
    /\ app = NoApp
    /\ paid = <<>>

NextAdapter ==
    \/ GetConnection
    \/ \E stmt \in AppStatements : SafeCursorExecute(stmt)
    \/ \E stmt \in AppStatements : SafeConnectionExecute(stmt)
    \/ Commit
    \/ Rollback
    \/ Close

SpecAdapter == InitAdapter /\ [][NextAdapter]_vars

\* the placeholder translation on arbitrary query texts: the text and the bind
\* values are drawn once, then executed on whichever backend is configured
InitTranslate ==
    /\ env \in EnvValues
    /\ conn = NoConn
    /\ db = EmptyDb
    /\ committed = EmptyDb
    /\ cur = NoCursor
    /\ input \in TextStatements
    /\ out = NoOut
    /\ app = NoApp
    /\ paid = <<>>

NextTranslate ==
    \/ GetConnection
    \/ SafeCursorExecute(input)
    \/ SafeConnectionExecute(input)
    \/ Rollback
    \/ Close

SpecTranslate == InitTranslate /\ [][NextTranslate]_vars

(***************************************************************************)
(* Inputs of the reports                                                   *)
(***************************************************************************)
\* the dashboard's dropdown offers the first three; the functions take any string
Periods == {"Daily", "Weekly", "Monthly"}
PeriodValues == Periods \cup {"Yearly"}

\* reference instants (UTC hours): 2024-01-01 and 2024-01-02 at 00:00, 18:00
\* and 19:00 UTC, i.e. 05:00, 23:00 and 00:00 of the next day in UTC+5
RefDays == {31, 32}
RefHours == {0, 18, 19}
RefTimes == {24 * d + h : d \in RefDays, h \in RefHours}

\* civil (UTC+5) times at which sales were recorded: 2023-12-25, 2023-12-26
\* and 2024-01-01, at 00:00 and 12:00
SaleDays == {24, 25, 31}
SaleHours == {0, 12}
SaleTimes == {24 * d + h : d \in SaleDays, h \in SaleHours}

NameRice == <<82, 105, 99, 101>>
NameSugar == <<83, 117, 103, 97, 114>>
CategoryFood == <<70, 111, 111, 100>>

\* sale number k of a store, recorded at civil time t, with its one item row
\* (process_payment: total = subtotal - discount, 12.00 - 2.00 and 5.00 - 0)
SaleRow(k, t) ==
    [id |-> k, total_amount |-> IF k = 1 THEN 1000 ELSE 500,
     cashier_name |-> IF k = 1 THEN "Admin" ELSE "Cashier 1",
     customer_name |-> IF k = 1 THEN "Walk-in" ELSE "Ali",
     date_created |-> StrfTimestamp(t)]
ItemRow(k) ==
    [id |-> k, sale_id |-> k, product_name |-> IF k = 1 THEN NameRice ELSE NameSugar,
     price |-> IF k = 1 THEN 600 ELSE 500, quantity |-> IF k = 1 THEN 2 ELSE 1]

\* sale ids grow with time
SaleTimeLists == {ts \in SeqsUpTo(SaleTimes, MaxSales) :
                    \A i \in 1..(Len(ts) - 1) : ts[i] <= ts[i + 1]}

Stocked ==
    [products |-> {[barcode |-> "111", name |-> NameRice, category |-> General,
                    price |-> 150, stock |-> 5, expiry_date |-> <<>>],
                   [barcode |-> "222", name |-> NameSugar, category |-> CategoryFood,
                    price |-> 90, stock |-> 15, expiry_date |-> StrfDate(24 * 33)]},
     customers |-> {"Ali"},
     stock_logs |-> <<[id |-> 1, product_name |-> NameRice, change_amount |-> 5,
                       reason |-> "Initial Stock", user_role |-> "Admin"]>>]
Unstocked == [products |-> {}, customers |-> {}, stock_logs |-> <<>>]

Stores ==
    {[EmptyDb EXCEPT !.sales = [k \in 1..Len(ts) |-> SaleRow(k, ts[k])],
                     !.items = {ItemRow(k) : k \in 1..Len(ts)},
                     !.products = inv.products,
                     !.customers = inv.customers,
                     !.stock_logs = inv.stock_logs]
        : ts \in SaleTimeLists, inv \in {Stocked, Unstocked}}

\* the embedded and the networked configuration
ReportEnvs == {e \in EnvValues : e.RENDER = Unset /\ e.psycopg2 /\ e.DATABASE_URL # ""}

Requests == [period : PeriodValues, utc : RefTimes,
             fail : {"none"} \cup DashboardQueries \cup ExcelQueries \cup PdfQueries]

\* no sale of the store was recorded after the report's reference instant
SalesNotAfter(S, utc) ==
    \A k \in 1..Len(S.sales) : TextGe(StrfTimestamp(utc + 5), S.sales[k].date_created)

InitReport ==
    /\ env \in ReportEnvs
    /\ conn = NoConn
    /\ committed \in Stores
    /\ db = committed
    /\ cur = NoCursor
    /\ input \in Requests
    /\ SalesNotAfter(committed, input.utc)
    /\ out = NoOut
    /\ app = NoApp
    /\ paid = <<>>

NextReport ==
    \/ /\ input.fail \in {"none"} \cup DashboardQueries
       /\ ShowDashboard(input.period, input.utc, input.fail)
    \/ /\ input.fail \in {"none"} \cup ExcelQueries
       /\ ExportToExcel(input.period, input.utc, input.fail)
    \/ /\ input.fail \in {"none"} \cup PdfQueries
       /\ GenerateBusinessReport(input.period, input.utc, input.fail)

SpecReport == InitReport /\ [][NextReport]_vars

(***************************************************************************)
(* Shops with fuller shelves: ties between products and between customers, *)
(* more low-stock products than the alert shows, products sharing a name   *)
(***************************************************************************)
\* a row of the products table
Product(barcode, name, stock) ==
    [barcode |-> barcode, name |-> name, category |-> General,
     price |-> 100, stock |-> stock, expiry_date |-> <<>>]

\* stock levels 5, 15 and 9 around the alert's threshold
ShelfThreshold ==
    {Product("111", NameRice, 5), Product("222", NameSugar, 15),
     [Product("333", <<84, 101, 97>>, 9) EXCEPT !.expiry_date = StrfDate(24 * 33)]}
\* six products below the threshold, one of them oversold, and one at it
ShelfLow ==
    {Product("111", NameRice, 0 - 1), Product("222", NameSugar, 3),
     Product("333", <<84, 101, 97>>, 5), Product("444", <<79, 105, 108>>, 7),
     Product("555", <<83, 97, 108, 116>>, 9), Product("666", <<77, 105, 108, 107>>, 9),
     Product("777", <<83, 111, 97, 112>>, 10)}
\* two products entered under the same name, one of them exactly at the threshold
ShelfSameName ==
    {Product("111", NameRice, 5), Product("112", NameRice, 10), Product("222", NameSugar, 15)}
Shelves == {ShelfThreshold, ShelfLow, ShelfSameName}

\* no sale; one sale a week ago; three sales today (Rice x2, Sugar x1, Sugar x1:
\* both products sold twice, both customers billed 10.00); one old and two today
ShelfSaleTimes ==
    {<<>>, <<24 * 24 + 12>>, <<24 * 31, 24 * 31, 24 * 31>>, <<24 * 24 + 12, 24 * 31, 24 * 31>>}

ShelfStores ==
    {[EmptyDb EXCEPT !.sales = [k \in 1..Len(ts) |-> SaleRow(k, ts[k])],
                     !.items = {ItemRow(k) : k \in 1..Len(ts)},
                     !.products = shelf,
                     !.customers = {"Ali"}]
        : ts \in ShelfSaleTimes, shelf \in Shelves}

\* reports asked for on 2024-01-01 at 05:00 (UTC+5)
ShelfRequests == [period : Periods, utc : {24 * 31}, fail : {"none"}]

InitShelf ==
    /\ env \in ReportEnvs
    /\ conn = NoConn
    /\ committed \in ShelfStores
    /\ db = committed
    /\ cur = NoCursor
    /\ input \in ShelfRequests
    /\ out = NoOut
    /\ app = NoApp
    /\ paid = <<>>

NextShelf ==
    \/ ShowDashboard(input.period, input.utc, input.fail)
    \/ ExportToExcel(input.period, input.utc, input.fail)
    \/ GenerateBusinessReport(input.period, input.utc, input.fail)

SpecShelf == InitShelf /\ [][NextShelf]_vars

(***************************************************************************)
(* The POS terminal: cart, discount and payment (pos.py show_pos)          *)
(***************************************************************************)
MaxQty == 2          \* most units of one product in a cart
MaxPayments == 2     \* most process_payment calls on a non-empty cart in a run

\* the class with the flag of the module copied onto it: a mutation of DBHandlerAttributes
DBHandlerWithFlag == {"get_connection", "get_placeholder", "get_auto_id_sql", "HAS_POSTGRES"}

\* the attributes class DBHandler defines: db_connector.py 66-95
DBHandlerAttributes == {"get_connection", "get_placeholder", "get_auto_id_sql"}

\* sum(item['price'] * item['qty'] for item in self.cart.values())
Subtotal(cart) == SumOver([b \in DOMAIN cart |-> cart[b].price * cart[b].qty])
\* max(0, x)
Max0(x) == IF x < 0 THEN 0 ELSE x

WalkIn == "Walk-in"

\* add_to_cart(item): item is a product row (barcode, name, price)
AddToCart(item) ==
    /\ item.barcode \in DOMAIN app.cart => app.cart[item.barcode].qty < MaxQty
    /\ app' = [app EXCEPT
                 !.cart = IF item.barcode \in DOMAIN @
                            THEN [@ EXCEPT ![item.barcode].qty = @ + 1]
                            ELSE @ @@ [b \in {item.barcode} |->
                                        [name |-> item.name, price |-> item.price,
                                         qty |-> 1, barcode |-> item.barcode]],
                 !.snack = "Added"]
    /\ UNCHANGED <<env, conn, db, committed, cur, input, out, paid>>

\* show_discount_dialog / apply_disc with the number val typed in
ApplyDisc(val) ==
    /\ IF val < 0
         THEN app' = [app EXCEPT !.snack = "Invalid Number"]       \* ValueError("Negative")
         ELSE app' = [app EXCEPT !.discount = val, !.snack = "Discount Applied"]
    /\ UNCHANGED <<env, conn, db, committed, cur, input, out, paid>>

\* the cart's barcodes in the order the loop at 1056 visits them
CartOrder(cart) == CHOOSE f \in Perms(DOMAIN cart) : TRUE

\* statements 3 and 4 of process_payment followed by conn.commit(), on store S;
\* sale_id is what cursor.lastrowid returned after the INSERT of the sale
RecordSale(S, sale_id, cart, total, user, customer, date_str) ==
    LET order == CartOrder(cart)
        n == Len(order)
    IN  [S EXCEPT
           !.sales = Append(@, [id |-> Len(S.sales) + 1, total_amount |-> total,
                                cashier_name |-> user, customer_name |-> customer,
                                date_created |-> date_str]),
           !.items = @ \cup {[id |-> Cardinality(S.items) + k, sale_id |-> sale_id,
                               product_name |-> cart[order[k]].name,
                               price |-> cart[order[k]].price,
                               quantity |-> cart[order[k]].qty] : k \in 1..n},
           !.products = {[p EXCEPT !.stock = IF p.barcode \in DOMAIN cart
                                               THEN @ - cart[p.barcode].qty ELSE @]
                            : p \in @},
           !.stock_logs = @ \o [k \in 1..n |->
                                  [id |-> Len(S.stock_logs) + k,
                                   product_name |-> cart[order[k]].name,
                                   change_amount |-> 0 - cart[order[k]].qty,
                                   reason |-> <<"Sale #", sale_id>>,
                                   user_role |-> IF user # "" THEN user ELSE "Unknown"]]]

\* the statements of process_payment a backend may reject: the INSERT of the
\* sale (1050), the UPDATE of the stock (1057), the INSERT of an item (1058)
\* and the INSERT of a stock log (147)
PaymentFaults == {"none", "sale", "stock", "item", "log"}

\* the handler at 1119-1121 with the cart emptied as well: a mutation of OnSaleError
OnSaleErrorClearing(a) == [a EXCEPT !.snack = "Error", !.cart = EmptyCart, !.discount = 0]

\* except Exception as ex: print, show_snack(f"Error: {ex}", "red")
OnSaleError(a) == [a EXCEPT !.snack = "Error"]

\* "6. Reset UI", show_pos and the closing snack
OnSaleCompleted(a, receipt) ==
    [a EXCEPT !.cart = EmptyCart, !.discount = 0, !.customer = WalkIn,
              !.last_receipt_data = receipt, !.snack = "Sale Completed"]

\* process_payment(e) at the instant utc; fault names the statement the
\* backend rejects during this call ("none": it rejects none)
ProcessPayment(utc, fault) ==
    IF DOMAIN app.cart = {}
      THEN /\ app' = [app EXCEPT !.snack = "Cart is empty!"]
           /\ out' = [consumer |-> "payment", utc |-> utc, ok |-> FALSE,
                      connected |-> FALSE, closed |-> TRUE, committed |-> FALSE]
           /\ UNCHANGED <<env, conn, db, committed, cur, input, paid>>
      ELSE /\ Len(paid) < MaxPayments
           /\ Len(committed.sales) < MaxSales
           /\ \E c \in ConnectOutcomes :
                LET subtotal == Subtotal(app.cart)
                    total == Max0(subtotal - app.discount)
                    date_str == StrfTimestamp(get_pak_time(utc))
                    \* conn is None; DBHandler.HAS_POSTGRES; DBHandler.execute_and_get_id
                    AttributeError ==
                        \/ c.state # "open"
                        \/ "HAS_POSTGRES" \notin DBHandlerAttributes
                        \/ HAS_POSTGRES /\ "execute_and_get_id" \notin DBHandlerAttributes
                    \* a rejected statement of the try body; a rejected stock log is
                    \* swallowed by log_stock_change, but on the networked backend it
                    \* leaves the transaction aborted and the next cart entry's UPDATE fails
                    Rejected ==
                        \/ fault \in {"sale", "stock", "item"}
                        \/ fault = "log" /\ c.db_type = "postgres"
                              /\ Cardinality(DOMAIN app.cart) > 1
                    sale_id == IF c.db_type = "sqlite" THEN Len(committed.sales) + 1 ELSE 0
                    recorded == RecordSale(committed, sale_id, app.cart, total,
                                           app.user, app.customer, date_str)
                    receipt == [receipt_no |-> sale_id, subtotal |-> subtotal,
                                discount |-> app.discount, total |-> total]
                    base == [consumer |-> "payment", utc |-> utc, db_type |-> c.db_type,
                             connected |-> c.state = "open", cart |-> app.cart,
                             customer |-> app.customer, fault |-> fault,
                             subtotal |-> subtotal, discount |-> app.discount, total |-> total]
                IN  IF AttributeError \/ Rejected
                      \* the connection is neither committed nor closed
                      THEN /\ app' = OnSaleError(app)
                           /\ out' = base @@ [ok |-> FALSE, closed |-> c.state # "open",
                                              committed |-> FALSE]
                           /\ UNCHANGED <<db, committed>>
                    ELSE IF fault = "log" /\ c.db_type = "postgres"
                      \* conn.commit() of the aborted transaction rolls back, silently
                      THEN /\ app' = OnSaleCompleted(app, receipt)
                           /\ out' = base @@ [ok |-> TRUE, closed |-> TRUE, committed |-> FALSE]
                           /\ UNCHANGED <<db, committed>>
                    ELSE /\ committed' = IF fault = "log"
                                            THEN [recorded EXCEPT !.stock_logs = committed.stock_logs]
                                            ELSE recorded
                         /\ db' = committed'
                         /\ app' = OnSaleCompleted(app, receipt)
                         /\ out' = base @@ [ok |-> TRUE, closed |-> TRUE, committed |-> TRUE]
           /\ paid' = Append(paid, [subtotal |-> Subtotal(app.cart), discount |-> app.discount])
           /\ UNCHANGED <<env, conn, cur, input>>

\* discounts typed at the till: 2.00, 7.00 and a negative one
DiscountValues == {200, 700, 0 - 100}

\* the terminal after login and show_pos (pos.py 291, 716-796)
PosOpened(user) == [NoApp EXCEPT !.user = user, !.customer = WalkIn]

\* a Daily report asked for on 2024-01-01 at 05:00 or on 2024-01-02 at 00:00 (UTC+5)
SaleRequests == [period : {"Daily"}, utc : {24 * 31, 24 * 31 + 19}, fail : {"none"}]

\* a stocked shop without sales, a cashier at the terminal
InitSale ==
    /\ env \in ReportEnvs
    /\ conn = NoConn
    /\ committed \in {S \in Stores : S.sales = <<>> /\ S.products # {}}
    /\ db = committed
    /\ cur = NoCursor
    /\ input \in SaleRequests
    /\ out = NoOut
    /\ app = PosOpened("Cashier 1")
    /\ paid = <<>>

NextSale ==
    \/ \E p \in committed.products : AddToCart(p)
    \/ \E val \in DiscountValues : ApplyDisc(val)
    \/ ProcessPayment(input.utc, "none")
    \/ GenerateBusinessReport(input.period, input.utc, input.fail)

SpecSale == InitSale /\ [][NextSale]_vars

\* the terminal on a backend that rejects one kind of statement; besides the
\* two report configurations, the embedded backend without psycopg2 installed
SaleEnvs == ReportEnvs \cup {e \in EnvValues : e.DATABASE_URL = Unset /\ e.RENDER = Unset}
FaultRequests == [period : {"Daily"}, utc : {24 * 31}, fail : {"none"}, fault : PaymentFaults]

InitFaults ==
    /\ env \in SaleEnvs
    /\ conn = NoConn
    /\ committed \in {S \in Stores : S.sales = <<>> /\ S.products # {}}
    /\ db = committed
    /\ cur = NoCursor
    /\ input \in FaultRequests
    /\ out = NoOut
    /\ app = PosOpened("Cashier 1")
    /\ paid = <<>>

NextFaults ==
    \/ \E p \in committed.products : AddToCart(p)
    \/ ApplyDisc(200)
    \/ ProcessPayment(input.utc, input.fault)

SpecFaults == InitFaults /\ [][NextFaults]_vars

(***************************************************************************)
(* Held orders (pos.py 842-866)                                            *)
(***************************************************************************)
MaxHeld == 2

\* the part of show_pos that writes the session: discount (720), customer (796)
ShowPos(a) == [a EXCEPT !.discount = 0, !.customer = WalkIn]

\* the phone numbers typed at the till, named by their owner; "Omar" is not a customer
ClientPhones == {"Ali", "Omar"}

\* check_client(e) with the phone of client typed in
CheckClient(client) ==
    /\ \E c \in ConnectOutcomes :
         IF c.state # "open"
           THEN UNCHANGED app                       \* conn.cursor() on None raises
         ELSE IF client \in committed.customers
           THEN app' = [app EXCEPT !.customer = client, !.snack = "Found Client"]
         ELSE app' = [app EXCEPT !.customer = "New Client"]
    /\ UNCHANGED <<env, conn, db, committed, cur, input, out, paid>>

\* hold_order(e)
HoldOrder ==
    /\ Len(app.held_orders) < MaxHeld
    /\ IF DOMAIN app.cart = {}
         THEN UNCHANGED <<app, out>>
         ELSE LET order_data == [cart |-> app.cart, customer |-> app.customer]
                  held == [app EXCEPT !.held_orders = Append(@, order_data),
                                      !.cart = EmptyCart,
                                      !.customer = WalkInClient,
                                      !.discount = 0,
                                      !.snack = "Order Held"]
              IN  /\ app' = ShowPos(held)
                  /\ out' = [consumer |-> "hold", order |-> order_data]
    /\ UNCHANGED <<env, conn, db, committed, cur, input, paid>>

\* list.pop(idx), the list that is left
PopAt(list, idx) == SubSeq(list, 1, idx - 1) \o SubSeq(list, idx + 1, Len(list))

\* restore_order(idx), idx counted from 1
RestoreOrder(idx) ==
    /\ idx \in 1..Len(app.held_orders)
    /\ LET data == app.held_orders[idx]
           resumed == [app EXCEPT !.held_orders = PopAt(@, idx),
                                  !.cart = data.cart,
                                  !.customer = data.customer]
       IN  /\ app' = [ShowPos(resumed) EXCEPT !.snack = "Order Resumed"]
           /\ out' = [consumer |-> "restore", order |-> data, idx |-> idx]
    /\ UNCHANGED <<env, conn, db, committed, cur, input, paid>>

\* a stocked shop without sales, a cashier at the terminal
InitTill ==
    /\ env \in ReportEnvs
    /\ conn = NoConn
    /\ committed \in {S \in Stores : S.sales = <<>> /\ S.products # {}}
    /\ db = committed
    /\ cur = NoCursor
    /\ input = NoInput
    /\ out = NoOut
    /\ app = PosOpened("Cashier 1")
    /\ paid = <<>>

\* the product scanned while orders are held and resumed
TillProducts(S) == {p \in S.products : p.barcode = "111"}

NextTill ==
    \/ \E p \in TillProducts(committed) : AddToCart(p)
    \/ \E client \in ClientPhones : CheckClient(client)
    \/ HoldOrder
    \/ \E idx \in 1..MaxHeld : RestoreOrder(idx)

SpecTill == InitTill /\ [][NextTill]_vars

(***************************************************************************)
(* Inventory management (pos.py 1460-1481, 1582-1630)                      *)
(***************************************************************************)
MaxLogs == 2

\* log_stock_change(name, change, reason, cursor) on store S
LogStockChange(S, user, name, change, reason) ==
    [S EXCEPT !.stock_logs = Append(@, [id |-> Len(@) + 1, product_name |-> name,
                                        change_amount |-> change, reason |-> reason,
                                        user_role |-> IF user # "" THEN user ELSE "Unknown"])]

\* INSERT INTO products (barcode, name, category, price, stock, expiry_date)
InsertProduct(S, barcode, name, stock) ==
    [S EXCEPT !.products = @ \cup {[barcode |-> barcode, name |-> name, category |-> General,
                                     price |-> 600, stock |-> stock, expiry_date |-> <<>>]}]

\* UPDATE products SET name=?, ..., stock=?, ... WHERE barcode=?
UpdateProduct(S, barcode, name, stock) ==
    [S EXCEPT !.products = {IF p.barcode = barcode
                              THEN [p EXCEPT !.name = name, !.stock = stock]
                              ELSE p : p \in @}]

Barcodes(S) == {p.barcode : p \in S.products}

\* what the manager types: barcodes, names and stock counts
FormBarcodes == {"111", "333"}
FormNames == {NameRice, NameSugar}
FormStocks == {3, 8}

\* the result of an inventory handler: the snack it shows
InventoryOut(op, snack) == [consumer |-> "inventory", op |-> op, snack |-> snack]

\* save_product(e): edit is edit_mode["active"], the rest are the form's fields
SaveProduct(edit, barcode, name, stock) ==
    /\ Len(committed.stock_logs) < MaxLogs
    /\ edit => barcode \in Barcodes(committed)         \* start_edit(row) of a listed row
    /\ \E c \in ConnectOutcomes :
         IF c.state # "open" \/ (~edit /\ barcode \in Barcodes(committed))
           \* conn.cursor() on None, or the primary key rejects the INSERT
           THEN /\ out' = InventoryOut("save", "Error")
                /\ UNCHANGED <<db, committed>>
         ELSE IF edit
           THEN /\ committed' = LogStockChange(UpdateProduct(committed, barcode, name, stock),
                                                app.user, name, stock, "Manager Update")
                /\ db' = committed'
                /\ out' = InventoryOut("save", "Updated Successfully")
         ELSE /\ committed' = LogStockChange(InsertProduct(committed, barcode, name, stock),
                                              app.user, name, stock, "Initial Stock")
              /\ db' = committed'
              /\ out' = InventoryOut("save", "Added Successfully")
    /\ UNCHANGED <<env, conn, cur, input, app, paid>>

\* process_import(e) of a file with the one row (b, n, s)
ProcessImport(b, n, s) ==
    /\ Len(committed.stock_logs) < MaxLogs
    /\ \E c \in ConnectOutcomes :
         IF c.state # "open"
           THEN /\ out' = InventoryOut("import", "Import Error")
                /\ UNCHANGED <<db, committed>>
         ELSE /\ committed' = IF b \in Barcodes(committed)
                                 THEN LogStockChange(UpdateProduct(committed, b, n, s),
                                                     app.user, n, 0, "Bulk Update")
                                 ELSE LogStockChange(InsertProduct(committed, b, n, s),
                                                     app.user, n, s, "Bulk Import")
              /\ db' = committed'
              /\ out' = InventoryOut("import", "Imported 1 items. 0 failed/skipped.")
    /\ UNCHANGED <<env, conn, cur, input, app, paid>>

\* delete_product(barcode)
DeleteProduct(barcode) ==
    /\ \E c \in ConnectOutcomes :
         IF c.state # "open"
           THEN /\ out' = InventoryOut("delete", "Error")
                /\ UNCHANGED <<db, committed>>
         ELSE /\ committed' = [committed EXCEPT
                                 !.products = {p \in @ : p.barcode # barcode}]
              /\ db' = committed'
              /\ out' = InventoryOut("delete", "Item Deleted")
    /\ UNCHANGED <<env, conn, cur, input, app, paid>>

\* a shop with one sale of Rice on 2024-01-01 and no product yet
InventoryRequests == [period : {"Daily"}, utc : {24 * 31}, fail : {"none"}]

InitInventory ==
    /\ env \in ReportEnvs
    /\ conn = NoConn
    /\ committed \in {S \in Stores : /\ S.products = {}
                                     /\ Len(S.sales) = 1
                                     /\ S.sales[1].date_created = StrfTimestamp(24 * 31)}
    /\ db = committed
    /\ cur = NoCursor
    /\ input \in InventoryRequests
    /\ out = NoOut
    /\ app = PosOpened("Admin")
    /\ paid = <<>>

NextInventory ==
    \/ \E edit \in BOOLEAN, barcode \in FormBarcodes, name \in FormNames, stock \in FormStocks :
          SaveProduct(edit, barcode, name, stock)
    \/ \E b \in FormBarcodes, n \in FormNames, s \in FormStocks : ProcessImport(b, n, s)
    \/ \E barcode \in FormBarcodes : DeleteProduct(barcode)
    \/ ExportToExcel(input.period, input.utc, input.fail)

SpecInventory == InitInventory /\ [][NextInventory]_vars

(***************************************************************************)
(* Two terminals on one store: each runs its own HornERP and opens its own *)
(* connection; app maps a terminal to its state, with the position of its  *)
(* process_payment in pc                                                   *)
(***************************************************************************)
Terminals == {1, 2}

\* add_to_cart(item) on a cart
CartAdd(cart, item) ==
    IF item.barcode \in DOMAIN cart
      THEN [cart EXCEPT ![item.barcode].qty = @ + 1]
      ELSE cart @@ [b \in {item.barcode} |->
                      [name |-> item.name, price |-> item.price,
                       qty |-> 1, barcode |-> item.barcode]]

\* add_to_cart(item) at terminal t
ScanAt(t, item) ==
    /\ app[t].pc = "idle"
    /\ item.barcode \in DOMAIN app[t].cart => app[t].cart[item.barcode].qty < MaxQty
    /\ app' = [app EXCEPT ![t].cart = CartAdd(@, item), ![t].snack = "Added"]
    /\ UNCHANGED <<env, conn, db, committed, cur, input, out, paid>>

\* process_payment at terminal t up to the total (1027-1041): the connection is opened
PayBegin(t) ==
    /\ app[t].pc = "idle"
    /\ DOMAIN app[t].cart # {}
    /\ Len(paid) < MaxPayments
    /\ \E c \in ConnectOutcomes :
         app' = [app EXCEPT ![t].pc = "paying", ![t].connected = c.state = "open",
                            ![t].db_type = c.db_type]
    /\ UNCHANGED <<env, conn, db, committed, cur, input, out, paid>>

\* process_payment at terminal t from line 1046 on. The statements behind the
\* lookup of DBHandler.HAS_POSTGRES are taken as one step: the first UPDATE
\* holds the backend's write lock until the commit
PayRecord(t) ==
    /\ app[t].pc = "paying"
    /\ LET a == app[t]
           subtotal == Subtotal(a.cart)
           total == Max0(subtotal - a.discount)
           AttributeError ==
               \/ ~a.connected
               \/ "HAS_POSTGRES" \notin DBHandlerAttributes
               \/ HAS_POSTGRES /\ "execute_and_get_id" \notin DBHandlerAttributes
           sale_id == IF a.db_type = "sqlite" THEN Len(committed.sales) + 1 ELSE 0
           done == [terminal |-> t, cart |-> a.cart, connected |-> a.connected]
       IN  /\ IF AttributeError
                THEN /\ app' = [app EXCEPT ![t] = [OnSaleError(a) EXCEPT !.pc = "idle"]]
                     /\ out' = [consumer |-> "payment", terminal |-> t, ok |-> FALSE,
                                closed |-> ~a.connected, committed |-> FALSE]
                     /\ UNCHANGED <<db, committed>>
                ELSE /\ committed' = RecordSale(committed, sale_id, a.cart, total, a.user,
                                                a.customer, StrfTimestamp(get_pak_time(input.utc)))
                     /\ db' = committed'
                     /\ app' = [app EXCEPT ![t] =
                                  [OnSaleCompleted(a, [receipt_no |-> sale_id, subtotal |-> subtotal,
                                                       discount |-> a.discount, total |-> total])
                                     EXCEPT !.pc = "idle"]]
                     /\ out' = [consumer |-> "payment", terminal |-> t, ok |-> TRUE,
                                closed |-> TRUE, committed |-> TRUE]
           /\ paid' = Append(paid, done)
    /\ UNCHANGED <<env, conn, cur, input>>

\* the stocked shop without sales
TillStores == {S \in Stores : S.sales = <<>> /\ S.products # {}}

InitTills ==
    /\ env \in ReportEnvs
    /\ conn = NoConn
    /\ committed \in TillStores
    /\ db = committed
    /\ cur = NoCursor
    /\ input \in InventoryRequests
    /\ out = NoOut
    /\ app = [t \in Terminals |->
                PosOpened("Cashier 1") @@ [pc |-> "idle", connected |-> FALSE, db_type |-> "none"]]
    /\ paid = <<>>

NextTills ==
    \/ \E t \in Terminals, p \in TillProducts(committed) : ScanAt(t, p)
    \/ \E t \in Terminals : PayBegin(t)
    \/ \E t \in Terminals : PayRecord(t)

SpecTills == InitTills /\ [][NextTills]_vars

(***************************************************************************)
(* A report query by query, with another connection of the same database   *)
(* committing sales meanwhile. Neither report opens a snapshot: sqlite3     *)
(* runs each SELECT on its own, psycopg2 runs them in one READ COMMITTED    *)
(* transaction, and either way a statement reads what is committed when it  *)
(* starts. out is the report in progress, out.pc the query it is at.        *)
(***************************************************************************)
ReportIdle == IF out.consumer = "none" THEN TRUE ELSE out.pc = "done"

\* the sale ids a joined item query read
SaleIdsOf(items) == {i.sale_id : i \in items}

\* generate_business_report up to the cursor (pdf_report.py 19-62)
PdfBegin(period, utc) ==
    /\ ReportIdle
    /\ \E c \in ConnectOutcomes :
         LET r == PdfResolve(period, utc)
             base == [consumer |-> "pdf", period |-> period, utc |-> utc, db_type |-> c.db_type,
                      where |-> r.where, revenue_amt |-> Null, gross_amt |-> Null,
                      discounts |-> Null, net_seen |-> {}, gross_seen |-> {},
                      top_products |-> <<>>]
         IN  IF c.state # "open"
               THEN out' = base @@ [pc |-> "done", ok |-> FALSE, closed |-> TRUE]
               ELSE out' = base @@ [pc |-> "net", ok |-> FALSE, closed |-> FALSE]
    /\ UNCHANGED <<env, conn, db, committed, cur, input, app, paid>>

\* "1. Stats (Revenue for Period - NET)" (70-72)
PdfNetQuery ==
    /\ out.consumer = "pdf" /\ out.pc = "net"
    /\ out' = [out EXCEPT !.pc = "gross",
                          !.revenue_amt = NetRevenue(out.db_type, out.where, committed),
                          !.net_seen = Ids(Selected(out.db_type, out.where, committed))]
    /\ UNCHANGED <<env, conn, db, committed, cur, input, app, paid>>

\* "1b. Gross Sales (Sum of Items)" and the discount (75-85)
PdfGrossQuery ==
    /\ out.consumer = "pdf" /\ out.pc = "gross"
    /\ LET p_filter == QualifyColumn(out.where)
           gross_amt == GrossRevenue(out.db_type, p_filter, committed)
       IN  out' = [out EXCEPT !.pc = "rest",
                              !.gross_amt = gross_amt,
                              !.gross_seen = SaleIdsOf(JoinedItems(out.db_type, p_filter, committed)),
                              !.discounts = PyMinus(gross_amt, out.revenue_amt)]
    /\ UNCHANGED <<env, conn, db, committed, cur, input, app, paid>>

\* the remaining queries and conn.close() (87-125)
PdfFinish ==
    /\ out.consumer = "pdf" /\ out.pc = "rest"
    /\ \E top \in TopProducts(out.db_type, QualifyColumn(out.where), committed) :
         out' = [out EXCEPT !.pc = "done", !.ok = TRUE, !.closed = TRUE, !.top_products = top]
    /\ UNCHANGED <<env, conn, db, committed, cur, input, app, paid>>

\* export_to_excel up to the inventory query (excel_exporter.py 45-98)
ExcelBegin(period, utc) ==
    /\ ReportIdle
    /\ \E c \in ConnectOutcomes :
         LET r == ExcelResolve(period, utc)
             base == [consumer |-> "excel", period |-> period, utc |-> utc, db_type |-> c.db_type,
                      where |-> r.where, net_revenue |-> Null, gross_revenue |-> Null,
                      discount_total |-> Null, net_seen |-> {}, gross_seen |-> {},
                      inventory_data |-> <<>>]
         IN  IF c.state # "open"
               THEN out' = base @@ [pc |-> "done", ok |-> FALSE, closed |-> TRUE]
               ELSE \E inv \in Inventory(committed) :
                      out' = [base EXCEPT !.inventory_data = inv]
                               @@ [pc |-> "sales", ok |-> FALSE, closed |-> FALSE]
    /\ UNCHANGED <<env, conn, db, committed, cur, input, app, paid>>

\* "2. Fetch Sales Detailed (Gross)" (100-124); the sum is taken at 161-164
ExcelSalesQuery ==
    /\ out.consumer = "excel" /\ out.pc = "sales"
    /\ LET rows == ExcelSalesRows(out.db_type, out.where, committed)
       IN  out' = [out EXCEPT !.pc = "net",
                              !.gross_revenue = Some(SetSum(rows, RowTotal)),
                              !.gross_seen = SaleIdsOf(JoinedItems(out.db_type, out.where, committed))]
    /\ UNCHANGED <<env, conn, db, committed, cur, input, app, paid>>

\* "3. Net Revenue Calculation", conn.close() and the discount (126-137, 167)
ExcelNetQuery ==
    /\ out.consumer = "excel" /\ out.pc = "net"
    /\ LET w == UnqualifyColumn(out.where)
           net_revenue == NetRevenue(out.db_type, w, committed)
       IN  out' = [out EXCEPT !.pc = "done", !.ok = TRUE, !.closed = TRUE,
                              !.net_revenue = net_revenue,
                              !.net_seen = Ids(Selected(out.db_type, w, committed)),
                              !.discount_total = PyMinus(out.gross_revenue, net_revenue)]
    /\ UNCHANGED <<env, conn, db, committed, cur, input, app, paid>>

\* another connection of the same database commits a sale of one Rice with
\* the given discount, at the reference instant: the rows the statements of
\* process_payment at 1050-1062 write, committed at 1071
OtherConnectionCommits(discount) ==
    /\ Len(committed.sales) < MaxSales
    /\ \E p \in TillProducts(committed) :
         LET cart == CartAdd(CartAdd(EmptyCart, p), p)
         IN  committed' = RecordSale(committed, Len(committed.sales) + 1, cart,
                                     Max0(Subtotal(cart) - discount), "Cashier 1", WalkIn,
                                     StrfTimestamp(get_pak_time(input.utc)))
    /\ db' = committed'
    /\ UNCHANGED <<env, conn, cur, input, out, app, paid>>

\* a stocked shop with at most one earlier sale; reports of 2024-01-01
SnapshotRequests == [period : Periods, utc : {24 * 31}, fail : {"none"}]

InitSnapshot ==
    /\ env \in ReportEnvs
    /\ conn = NoConn
    /\ committed \in {S \in Stores : S.products # {} /\ Len(S.sales) <= 1}
    /\ db = committed
    /\ cur = NoCursor
    /\ input \in SnapshotRequests
    /\ SalesNotAfter(committed, input.utc)
    /\ out = NoOut
    /\ app = NoApp
    /\ paid = <<>>

NextSnapshot ==
    \/ PdfBegin(input.period, input.utc)
    \/ PdfNetQuery
    \/ PdfGrossQuery
    \/ PdfFinish
    \/ ExcelBegin(input.period, input.utc)
    \/ ExcelSalesQuery
    \/ ExcelNetQuery
    \/ \E discount \in {0, 50} : OtherConnectionCommits(discount)

SpecSnapshot == InitSnapshot /\ [][NextSnapshot]_vars

(***************************************************************************)
(* Properties of the Dialect Adapter and the Connection Provider           *)
(***************************************************************************)
PercentS == <<ChPercent, ChS>>

\* position in the translated text of the character at position i of sql
Shifted(sql, i) == i + CountChar(SubSeq(sql, 1, i - 1), ChQm)

\* the '?' at position i lies inside a quoted string literal of sql
InLiteral(sql, i) ==
    /\ CountChar(SubSeq(sql, 1, i - 1), ChQuote) % 2 = 1
    /\ \E j \in (i + 1)..Len(sql) : sql[j] = ChQuote

\* C1: when a statement executed through SafeCursor.execute fails, the adapter
\* has rolled the connection back before the error reaches the caller, so the
\* networked backend's transaction is not left poisoned (aborted) and the next
\* statement on the connection is accepted.
C1_RollbackBeforeError ==
    cur.outcome = "raised" =>
        /\ conn.txn # "aborted"
        /\ NativeError(conn, db, [sql |-> <<83, ChQm>>, params |-> <<1>>,
                                  kind |-> "select", key |-> 1]) = NoError

\* C2: whenever the backend rejects a statement, execute does not return
\* normally and the error the caller receives carries the original query text
\* and the backend name.
C2_QueryFailedCarriesQueryAndBackend ==
    cur.outcome = "raised" =>
        /\ "query" \in DOMAIN cur.raised
        /\ cur.raised.query = cur.sql
        /\ "backend" \in DOMAIN cur.raised
        /\ cur.raised.backend = conn.db_type

\* C3: the networked backend receives the query with each '?' replaced by
\* '%s' (character by character, nothing else changed), the embedded backend
\* receives the query unchanged, the bind values arrive unchanged and in
\* order, and for a query that contains no '%s' of its own the number of '%s'
\* markers sent equals the number of '?' in the input.
C3_PlaceholderTranslation ==
    cur.outcome # "none" =>
        /\ conn.db_type = "sqlite" => cur.sentSql = cur.sql
        /\ conn.db_type = "postgres" =>
              /\ Len(cur.sentSql) = Len(cur.sql) + CountChar(cur.sql, ChQm)
              /\ \A i \in 1..Len(cur.sql) :
                    LET j == Shifted(cur.sql, i)
                    IN  IF cur.sql[i] = ChQm
                          THEN cur.sentSql[j] = ChPercent /\ cur.sentSql[j + 1] = ChS
                          ELSE cur.sentSql[j] = cur.sql[i]
              /\ CountSub(cur.sql, PercentS) = 0 =>
                    CountSub(cur.sentSql, PercentS) = CountChar(cur.sql, ChQm)
        /\ cur.sentParams = cur.params
        /\ cur.withParams <=> (cur.params # <<>>)

\* C3 witness: a query with two '?' and two bind values was executed on the
\* networked backend.
C3_Witness ==
    /\ cur.outcome = "returned"
    /\ conn.db_type = "postgres"
    /\ CountChar(cur.sql, ChQm) = 2
    /\ cur.params = <<7, 8>>

\* C4: a '?' that occurs inside a string literal of the query text reaches the
\* backend unchanged, on both backends.
C4_LiteralQuestionMarkKept ==
    cur.outcome # "none" =>
        \A i \in 1..Len(cur.sql) :
            (cur.sql[i] = ChQm /\ InLiteral(cur.sql, i)) =>
                \E j \in 1..Len(cur.sentSql) :
                    /\ cur.sentSql[j] = ChQm
                    /\ j > 1 /\ cur.sentSql[j - 1] = cur.sql[i - 1]

\* C5: with the backend setting present, get_connection yields the networked
\* backend with TLS required or a connection failure, never the embedded
\* backend; with the setting absent it yields the embedded store with busy
\* timeout 30.
C5_FailClosed ==
    conn.state # "none" =>
        IF Truthy(DATABASE_URL)
          THEN \/ conn.state = "failed"
               \/ conn.db_type = "postgres" /\ conn.sslmode = "require"
          ELSE conn.db_type = "sqlite" /\ conn.timeout = 30

\* C6: after a successful insert into a table with an auto-generated id,
\* SafeCursor.lastrowid is the id of the row just inserted, on both backends.
C6_LastrowidIsInsertedId ==
    (cur.outcome = "returned" /\ cur.kind = "insert_auto") => Lastrowid = cur.rowid

(***************************************************************************)
(* Properties of the Period Resolver and the Aggregation Engine            *)
(***************************************************************************)
ResolveFor(consumer, period, utc) ==
    IF consumer = "dashboard" THEN DashboardResolve(period, utc)
    ELSE IF consumer = "excel" THEN ExcelResolve(period, utc)
    ELSE PdfResolve(period, utc)

\* the two instants fall on the same UTC+5 calendar day
SamePakDay(a, b) == (a + 5) \div 24 = (b + 5) \div 24

\* the civil day a stored sale was recorded on, as a day number
DayOfSale(s) == (CHOOSE t \in SaleTimes : StrfTimestamp(t) = s.date_created) \div 24

EmptyStore(S) == S.sales = <<>> /\ S.items = {} /\ S.products = {}

\* C7: for any two reference timestamps on the same UTC+5 calendar day,
\* resolving Daily gives the identical predicate and label, in the dashboard,
\* the spreadsheet exporter and the PDF report.
C7_DailySameDaySamePredicate ==
    (out.consumer # "none" /\ out.period = "Daily") =>
        \A u \in RefTimes :
            SamePakDay(u, out.utc) =>
                /\ ResolveFor(out.consumer, "Daily", u).where = out.where
                /\ ResolveFor(out.consumer, "Daily", u).label = out.label

\* C7 witness: a Daily report ran at an instant that shares its UTC+5 day with
\* another reference instant of a different UTC day.
C7_Witness ==
    /\ out.consumer = "pdf"
    /\ out.period = "Daily"
    /\ out.ok
    /\ \E u \in RefTimes : SamePakDay(u, out.utc) /\ u \div 24 # out.utc \div 24

\* C8: for every period value other than Daily, Weekly and Monthly, period
\* resolution does not fail and yields the predicate Daily yields for the same
\* reference time, in the dashboard, the exporter and the PDF report.
C8_UnknownPeriodFallsBackToDaily ==
    (out.consumer # "none" /\ out.connected /\ out.fail = "none" /\ out.period \notin Periods) =>
        /\ out.ok
        /\ out.where = ResolveFor(out.consumer, "Daily", out.utc).where

\* C9: for Weekly a sale is selected iff its creation timestamp, compared as
\* zero-padded ISO text, is >= the date of (reference - 7 days), which is iff
\* it was recorded on or after that day; the dashboard's date()-based
\* comparison and the emitters' text-cast comparison select the same sales.
C9_WeeklySelection ==
    (out.consumer # "none" /\ out.ok /\ out.period = "Weekly") =>
        /\ out.matched = {s.id : s \in {x \in Range(committed.sales) :
                              TextGe(x.date_created, StrfDate(out.utc + 5 - 24 * 7))}}
        /\ out.matched = {s.id : s \in {x \in Range(committed.sales) :
                              DayOfSale(x) >= ((out.utc + 5) \div 24) - 7}}
        /\ \A c \in {"dashboard", "excel", "pdf"} :
              Ids(Selected(out.db_type, ResolveFor(c, "Weekly", out.utc).where, committed))
                  = out.matched

\* C9 witness: a Weekly dashboard run selected a sale recorded on the first
\* day of the window and left out a sale recorded before it.
C9_Witness ==
    /\ out.consumer = "dashboard"
    /\ out.period = "Weekly"
    /\ out.ok
    /\ \E s \in Range(committed.sales) :
          s.id \in out.matched /\ SubSeq(s.date_created, 1, 10) = out.where.lit
    /\ \E s \in Range(committed.sales) : s.id \notin out.matched

\* C10: on a store with no sales and no products, a report for a supported
\* period in which the backend rejects no query ends without error, with net
\* and gross revenue 0.0 (not null) and empty top-product, employee, customer,
\* low-stock, expiry, trend and detail results.
C10_EmptyStoreDefaults ==
    (/\ out.consumer # "none" /\ out.connected /\ out.fail = "none"
     /\ out.period \in Periods /\ EmptyStore(committed)) =>
        /\ out.ok
        /\ out.consumer = "dashboard" =>
              /\ out.revenue_amt = Some(0)
              /\ out.sales_count = 0
              /\ out.top_sellers = <<>>
              /\ out.employee_stats = <<>>
              /\ out.customer_stats = <<>>
              /\ out.product_revenue_stats = <<>>
              /\ out.low_stock_items = <<>>
              /\ out.expiring_items = <<>>
        /\ out.consumer = "excel" =>
              /\ out.net_revenue = Some(0)
              /\ out.gross_revenue = Some(0)
              /\ out.discount_total = Some(0)
              /\ out.sales_data = <<>>
              /\ out.inventory_data = <<>>
        /\ out.consumer = "pdf" =>
              /\ out.revenue_amt = Some(0)
              /\ out.gross_amt = Some(0)
              /\ out.discounts = Some(0)
              /\ out.top_products = <<>>
              /\ out.trend_data = <<>>
              /\ out.sales_data = <<>>

\* C10 witness: the dashboard aggregation completed on an empty store.
C10_Witness ==
    /\ out.consumer = "dashboard"
    /\ out.ok
    /\ out.fail = "none"
    /\ EmptyStore(committed)
    /\ out.revenue_amt = Some(0)

(***************************************************************************)
(* Properties of the reported figures                                      *)
(***************************************************************************)
\* C11: the discount a report shows (gross revenue minus net revenue over the
\* period) is never negative, in the PDF report and in the spreadsheet export.
C11_DiscountNeverNegative ==
    /\ (out.consumer = "pdf" /\ out.ok) => out.discounts[1] >= 0
    /\ (out.consumer = "excel" /\ out.ok) => out.discount_total[1] >= 0

\* the discounts and the item value of the payments the cashier has made
PaidDiscounts == SumOver([k \in 1..Len(paid) |-> paid[k].discount])
PaidSubtotals == SumOver([k \in 1..Len(paid) |-> paid[k].subtotal])

\* C12: after the sales the cashier recorded through process_payment, each
\* with its own discount, the Daily report of that day shows gross revenue
\* equal to the item value sold and gross minus net equal to the sum of the
\* discounts applied to those sales.
C12_DiscountRoundTrip ==
    (out.consumer = "pdf" /\ out.ok /\ out.period = "Daily") =>
        /\ out.gross_amt = Some(PaidSubtotals)
        /\ PyMinus(out.gross_amt, out.revenue_amt) = Some(PaidDiscounts)
        /\ out.discounts = Some(PaidDiscounts)

(***************************************************************************)
(* Properties of the rankings and of the stock reads                       *)
(***************************************************************************)
\* rows <<name, value>>: descending by value, equal values by name ascending
RankedByValueThenName(rows) ==
    \A i \in 1..(Len(rows) - 1) :
        \/ rows[i][2] > rows[i + 1][2]
        \/ rows[i][2] = rows[i + 1][2] /\ TextLe(rows[i][1], rows[i + 1][1])

\* C13: the top-products and top-customers results have at most 5 rows, are
\* sorted descending by the summed value, and rows with equal sums are in
\* ascending name order, so the data determines the result (for the
\* customers: the backend has exactly one result it may return).
C13_TopRowsTieBrokenByName ==
    /\ (out.consumer = "pdf" /\ out.ok) =>
          /\ Len(out.top_products) <= 5
          /\ RankedByValueThenName(out.top_products)
    /\ (out.consumer = "dashboard" /\ out.ok) =>
          /\ Len(out.top_sellers) <= 5
          /\ RankedByValueThenName(out.top_sellers)
          /\ Len(out.customer_stats) <= 5
          /\ \A i \in 1..(Len(out.customer_stats) - 1) :
                out.customer_stats[i][2] >= out.customer_stats[i + 1][2]
          /\ CustomerStats(out.db_type, out.where, committed) = {out.customer_stats}

\* C14: the low-stock, near-expiry and full-inventory reads depend on the
\* product table only: what a report returned for them is what the backend may
\* return for any other set of sales over the same products, whichever period
\* was asked for.
C14_StockReadsIgnorePeriod ==
    \A S2 \in ShelfStores :
        S2.products = committed.products =>
            /\ (out.consumer = "dashboard" /\ out.ok) =>
                  /\ out.low_stock_items \in LowStock(S2)
                  /\ out.expiring_items \in Expiring(out.db_type, out.utc, S2)
            /\ (out.consumer = "excel" /\ out.ok) =>
                  out.inventory_data \in Inventory(S2)

\* C14 witness: a Weekly dashboard over a shop with sales showed a low-stock
\* product and an expiring one, and another shop has the same products but
\* no sales.
C14_Witness ==
    /\ out.consumer = "dashboard"
    /\ out.ok
    /\ out.period = "Weekly"
    /\ committed.sales # <<>>
    /\ out.low_stock_items # <<>>
    /\ out.expiring_items # <<>>
    /\ \E S2 \in ShelfStores : S2.products = committed.products /\ S2.sales = <<>>

RowOf(q) == <<q.name, q.stock>>
CountRows(rows, r) == Cardinality({k \in DOMAIN rows : rows[k] = r})
CountProducts(L, r) == Cardinality({q \in L : RowOf(q) = r})

\* C15: the low-stock alert returns only products with stock strictly below
\* 10 (negative stock included), each at most once, ascending by stock, and
\* as many as there are up to 5; a product below the threshold is left out
\* only when five rows with stock not above its own are returned.
C15_LowStockAlert ==
    (out.consumer = "dashboard" /\ out.ok) =>
        LET low == out.low_stock_items
            L == {q \in committed.products : q.stock < 10}
            n == Len(low)
        IN  /\ n = (IF Cardinality(L) < 5 THEN Cardinality(L) ELSE 5)
            /\ \A k \in 1..n :
                  /\ low[k][2] < 10
                  /\ CountRows(low, low[k]) <= CountProducts(L, low[k])
            /\ \A k \in 1..(n - 1) : low[k][2] <= low[k + 1][2]
            /\ \A q \in L :
                  (n < 5 \/ q.stock < low[n][2]) =>
                      CountRows(low, RowOf(q)) = CountProducts(L, RowOf(q))

\* C15 witness: with six products below the threshold and one at it, the
\* alert showed five rows starting with the oversold product.
C15_Witness ==
    /\ out.consumer = "dashboard"
    /\ out.ok
    /\ Len(out.low_stock_items) = 5
    /\ out.low_stock_items[1][2] < 0
    /\ Cardinality({q \in committed.products : q.stock < 10}) = 6
    /\ \E q \in committed.products : q.stock = 10

(***************************************************************************)
(* Properties of the degraded paths of the reports                         *)
(***************************************************************************)
\* the calendar days (as 'YYYY-MM-DD') on which the store has sales
SaleDaysOf(S) == {DayKey(x) : x \in Range(S.sales)}
DayTotal(S, d) == SetSum({x \in Range(S.sales) : DayKey(x) = d}, Amount)

\* C16: the revenue trend of the PDF report is at most 7 rows, one per
\* calendar day with that day's summed revenue, most recent day first; when
\* the grouping query fails it is the most recent raw sales by id, and then the
\* result is marked as raw and the chart does not show several bars for one
\* day as if they were day totals.
C16_TrendShapesDistinguished ==
    (out.consumer = "pdf" /\ out.ok) =>
        IF out.fail = "trend"
          THEN /\ out.trend_data = RawRecentSales(committed)
               /\ "trend_shape" \in DOMAIN out
               /\ \A i, j \in DOMAIN out.trend_chart :
                     out.trend_chart[i][1] = out.trend_chart[j][1] => i = j
          ELSE /\ Len(out.trend_data) <= 7
               /\ Len(out.trend_data) = Cardinality(SaleDaysOf(committed))
               /\ \A k \in DOMAIN out.trend_data :
                     /\ PyStr(out.trend_data[k][1]) \in SaleDaysOf(committed)
                     /\ out.trend_data[k][2] = DayTotal(committed, PyStr(out.trend_data[k][1]))
               /\ \A k \in 1..(Len(out.trend_data) - 1) :
                     /\ TextGe(PyStr(out.trend_data[k][1]), PyStr(out.trend_data[k + 1][1]))
                     /\ out.trend_data[k][1] # out.trend_data[k + 1][1]

\* C17: when exactly one query of an aggregation is rejected, the aggregation
\* still completes, the metric of the rejected query takes its zero or empty
\* default and the other metrics are what they are without the rejection; in
\* the dashboard, the spreadsheet exporter and the PDF report.
C17_MetricsDegradeIndependently ==
    (/\ out.consumer \in {"dashboard", "excel", "pdf"} /\ out.connected
     /\ out.period \in Periods /\ out.fail # "none") =>
        LET t == out.db_type
            w == UnqualifyColumn(out.where)
            unless(q, default, outcomes) == IF out.fail = q THEN {default} ELSE outcomes
        IN  /\ out.ok
            /\ out.consumer = "dashboard" =>
                  /\ out.revenue_amt \in unless("revenue", Some(0), {NetRevenue(t, w, committed)})
                  /\ out.top_sellers \in
                        unless("top_sellers", <<>>, TopProducts(t, QualifyColumn(w), committed))
                  /\ out.low_stock_items \in unless("low_stock", <<>>, LowStock(committed))
                  /\ out.employee_stats \in unless("employee", <<>>, EmployeeStats(t, w, committed))
                  /\ out.customer_stats \in unless("customer", <<>>, CustomerStats(t, w, committed))
                  /\ out.expiring_items \in unless("expiry", <<>>, Expiring(t, out.utc, committed))
            /\ out.consumer = "excel" =>
                  /\ out.net_revenue \in unless("net", Some(0), {NetRevenue(t, w, committed)})
                  /\ out.sales_data \in
                        unless("sales", <<>>, OrderedBy(ExcelSalesRows(t, out.where, committed), DateDesc))
            /\ out.consumer = "pdf" =>
                  /\ out.revenue_amt \in unless("net", Some(0), {NetRevenue(t, w, committed)})
                  /\ out.gross_amt \in
                        unless("gross", Some(0), {GrossRevenue(t, QualifyColumn(w), committed)})
                  /\ out.top_products \in
                        unless("top_products", <<>>, TopProducts(t, QualifyColumn(w), committed))

\* C18: every operation that acquires a backend connection (dashboard, PDF
\* report, spreadsheet export, sale recording) has closed it by the time it
\* returns, on the success path and on every failure path.
C18_ConnectionReleased ==
    out.consumer # "none" => out.closed

\* C19: on equally filled stores, the embedded and the networked backend give
\* the same aggregation results for the same period and reference time: what
\* a report returned on one backend is what the other may return.
C19_BackendsAgree ==
    (out.consumer \in {"dashboard", "excel", "pdf"} /\ out.ok) =>
        \A t \in {"sqlite", "postgres"} :
            LET w == UnqualifyColumn(out.where)
            IN  /\ out.consumer = "dashboard" =>
                      /\ out.revenue_amt = NetRevenue(t, w, committed)
                      /\ out.top_sellers \in TopProducts(t, QualifyColumn(w), committed)
                      /\ out.employee_stats \in EmployeeStats(t, w, committed)
                      /\ out.customer_stats \in CustomerStats(t, w, committed)
                      /\ out.low_stock_items \in LowStock(committed)
                      /\ out.expiring_items \in Expiring(t, out.utc, committed)
                /\ out.consumer = "excel" =>
                      out.net_revenue = NetRevenue(t, w, committed)
                /\ out.consumer = "pdf" =>
                      /\ out.revenue_amt = NetRevenue(t, w, committed)
                      /\ out.gross_amt = GrossRevenue(t, QualifyColumn(w), committed)
                      /\ out.top_products \in TopProducts(t, QualifyColumn(w), committed)
                      /\ out.trend_data = TrendByDay(t, committed)

\* C20: for the same store, period and reference time the dashboard, the
\* exporter and the PDF report compute the same net revenue, and the exporter
\* and the PDF report the same gross revenue and discount, whatever the
\* product table holds.
C20_ConsumersAgree ==
    (out.consumer \in {"dashboard", "excel", "pdf"} /\ out.ok /\ out.period \in Periods) =>
        LET t == out.db_type
            dash_net == NetRevenue(t, DashboardResolve(out.period, out.utc).where, committed)
            pdf_w == PdfResolve(out.period, out.utc).where
            pdf_net == NetRevenue(t, pdf_w, committed)
            pdf_gross == GrossRevenue(t, QualifyColumn(pdf_w), committed)
            excel_net == NetRevenue(t, UnqualifyColumn(ExcelResolve(out.period, out.utc).where),
                                    committed)
        IN  /\ dash_net = pdf_net /\ pdf_net = excel_net
            /\ out.consumer = "dashboard" => out.revenue_amt = pdf_net
            /\ out.consumer = "pdf" => out.revenue_amt = excel_net
            /\ out.consumer = "excel" =>
                  /\ out.net_revenue = pdf_net
                  /\ out.gross_revenue = pdf_gross
                  /\ out.discount_total = PyMinus(pdf_gross, pdf_net)

(***************************************************************************)
(* Properties of sale recording                                            *)
(***************************************************************************)
ItemsOf(S, s) == {i \in S.items : i.sale_id = s.id}

\* C21: every sale paid for at the terminal, whatever the cart and the
\* non-negative discount, is stored with a total amount equal to the sum of
\* price x quantity over its item rows minus the discount applied to it.
C21_StoredTotalIsItemsMinusDiscount ==
    \A k \in 1..Len(paid) :
        paid[k].discount >= 0 =>
            \E s \in Range(committed.sales) :
                /\ SetSum(ItemsOf(committed, s), LineTotal) = paid[k].subtotal
                /\ s.total_amount = SetSum(ItemsOf(committed, s), LineTotal) - paid[k].discount

\* the rows of one sale of the cart are visible in the store after and were not in the store before
SaleVisible(before, after, cart) ==
    /\ Len(after.sales) = Len(before.sales) + 1
    /\ LET s == after.sales[Len(after.sales)]
           new == after.items \ before.items
           logged == (Len(before.stock_logs) + 1)..Len(after.stock_logs)
       IN  /\ Cardinality(new) = Cardinality(DOMAIN cart)
           /\ \A b \in DOMAIN cart :
                 /\ Cardinality({i \in new : /\ i.sale_id = s.id
                                             /\ i.product_name = cart[b].name
                                             /\ i.price = cart[b].price
                                             /\ i.quantity = cart[b].qty}) = 1
                 /\ Cardinality({k \in logged :
                                   /\ after.stock_logs[k].product_name = cart[b].name
                                   /\ after.stock_logs[k].change_amount = 0 - cart[b].qty}) = 1
           /\ Cardinality(logged) = Cardinality(DOMAIN cart)
           /\ \A p \in before.products :
                 \E q \in after.products :
                     /\ q.barcode = p.barcode
                     /\ q.stock = p.stock - (IF p.barcode \in DOMAIN cart
                                               THEN cart[p.barcode].qty ELSE 0)

C25_PaymentRecordsTheSale ==
    [][(paid' # paid /\ out'.connected /\ out'.fault = "none") =>
          /\ SaleVisible(committed, committed', app.cart)
          /\ committed'.sales[Len(committed'.sales)].total_amount
                = Max0(Subtotal(app.cart) - app.discount)
          /\ app'.cart = EmptyCart
          /\ app'.discount = 0]_vars

\* C26: a payment that did not commit reports an error, never "Sale
\* Completed", and leaves the cart, the discount and the customer as they
\* were, so that it can be retried.
C26_FailureReportedCartKept ==
    [][(paid' # paid /\ ~out'.committed) =>
          /\ app'.snack = "Error"
          /\ app'.cart = app.cart
          /\ app'.discount = app.discount
          /\ app'.customer = app.customer]_vars

\* a payment with a discount failed on an open connection and the cart is still the one paid for
C26_Witness ==
    /\ out.consumer = "payment"
    /\ out.connected
    /\ out.fault = "item"
    /\ ~out.committed
    /\ out.discount > 0
    /\ app.snack = "Error"
    /\ app.cart = out.cart
    /\ Cardinality(DOMAIN app.cart) = 2
    /\ app.discount = out.discount

(***************************************************************************)
(* Properties relating the periods                                         *)
(***************************************************************************)
\* the fragment a consumer resolves for a period at a reference instant
WhereOf(consumer, period, utc) ==
    IF consumer = "dashboard" THEN DashboardResolve(period, utc).where
    ELSE IF consumer = "excel" THEN ExcelResolve(period, utc).where
    ELSE PdfResolve(period, utc).where

\* C27: in each of the three consumers and on either backend, every sale a
\* Daily report selected is also selected by the Weekly and by the Monthly
\* fragment resolved at the same reference instant.
C27_DailyWithinWeeklyAndMonthly ==
    (out.consumer \in {"dashboard", "excel", "pdf"} /\ out.ok /\ out.period = "Daily") =>
        \A wider \in {"Weekly", "Monthly"} :
            out.matched \subseteq
                Ids(Selected(out.db_type, WhereOf(out.consumer, wider, out.utc), committed))

\* a Daily report selected a sale of the day and left out an older sale that
\* the Weekly fragment selects
C27_Witness ==
    /\ out.consumer \in {"dashboard", "excel", "pdf"}
    /\ out.ok
    /\ out.period = "Daily"
    /\ out.matched # {}
    /\ Ids(Selected(out.db_type, WhereOf(out.consumer, "Weekly", out.utc), committed))
          # out.matched

(***************************************************************************)
(* Properties of held orders                                               *)
(***************************************************************************)
\* C30: holding an order empties the cart and appends one entry holding the
\* active cart and customer; restoring an entry removes it from the held list
\* and makes its cart and its customer the active ones again.
C30_HoldRestoreRoundTrip ==
    [][/\ Len(app'.held_orders) > Len(app.held_orders) =>
            /\ app'.cart = EmptyCart
            /\ app'.held_orders = Append(app.held_orders,
                                         [cart |-> app.cart, customer |-> app.customer])
       /\ Len(app'.held_orders) < Len(app.held_orders) =>
            \E idx \in 1..Len(app.held_orders) :
                /\ app'.held_orders = PopAt(app.held_orders, idx)
                /\ app'.cart = app.held_orders[idx].cart
                /\ app'.customer = app.held_orders[idx].customer]_vars

(***************************************************************************)
(* Properties of inventory management                                      *)
(***************************************************************************)
\* the stock of the product with this barcode, 0 while there is none
StockOf(S, barcode) ==
    IF barcode \in Barcodes(S)
      THEN (CHOOSE p \in S.products : p.barcode = barcode).stock
      ELSE 0
NameOf(S, barcode) == (CHOOSE p \in S.products : p.barcode = barcode).name

\* C23: stock-log entries are only appended, and an operation that creates a
\* product or changes its stock logs under the product's name exactly the
\* signed change, new stock minus old stock.
C23_LogsAreAppendedDeltas ==
    [][/\ Len(committed'.stock_logs) >= Len(committed.stock_logs)
       /\ SubSeq(committed'.stock_logs, 1, Len(committed.stock_logs)) = committed.stock_logs
       /\ \A b \in Barcodes(committed') :
             StockOf(committed', b) # StockOf(committed, b) =>
                 SetSum({k \in (Len(committed.stock_logs) + 1)..Len(committed'.stock_logs) :
                            committed'.stock_logs[k].product_name = NameOf(committed', b)},
                        LAMBDA k : committed'.stock_logs[k].change_amount)
                   = StockOf(committed', b) - StockOf(committed, b)]_vars

\* the figures of the exporter and of the PDF report for a period on store S
ReportFigures(db_type, period, utc, S) ==
    LET excel_w == ExcelResolve(period, utc).where
        pdf_w == PdfResolve(period, utc).where
        excel_net == NetRevenue(db_type, UnqualifyColumn(excel_w), S)
        excel_gross == Some(SetSum(ExcelSalesRows(db_type, excel_w, S), RowTotal))
    IN  [excel_net |-> excel_net,
         excel_gross |-> excel_gross,
         excel_discount |-> PyMinus(excel_gross, excel_net),
         pdf_net |-> NetRevenue(db_type, pdf_w, S),
         pdf_gross |-> GrossRevenue(db_type, QualifyColumn(pdf_w), S),
         top_products |-> TopProducts(db_type, QualifyColumn(pdf_w), S)]

\* C24: a step that deletes or renames a product leaves the sale rows and the
\* sale-item rows as they were, and with them the net revenue, the gross
\* revenue, the discount and the top products of every period.
C24_SalesSurviveDeleteAndRename ==
    [][(\E p \in committed.products :
           ~\E q \in committed'.products : q.barcode = p.barcode /\ q.name = p.name) =>
          /\ committed'.sales = committed.sales
          /\ committed'.items = committed.items
          /\ \A period \in Periods, db_type \in {"sqlite", "postgres"} :
                ReportFigures(db_type, period, input.utc, committed')
                  = ReportFigures(db_type, period, input.utc, committed)]_vars

(***************************************************************************)
(* Properties of concurrent use                                            *)
(***************************************************************************)
\* the quantity of the product in the cart of a finished payment
SoldQty(done, barcode) ==
    IF barcode \in DOMAIN done.cart THEN done.cart[barcode].qty ELSE 0

ItemValue(S, id) == SetSum({i \in S.items : i.sale_id = id}, LAMBDA i : i.quantity * i.price)
TotalOf(S, id) == (CHOOSE s \in Range(S.sales) : s.id = id).total_amount
ReportedDiscount(o) == IF o.consumer = "pdf" THEN o.discounts ELSE o.discount_total
ReportComplete == IF out.consumer \in {"pdf", "excel"} THEN out.pc = "done" /\ out.ok ELSE FALSE

\* C29: in a completed report the net and the gross revenue were computed
\* over the same sales, also when another connection committed a sale while
\* the report ran, and the discount is the discount of those sales.
C29_SameSalesForNetAndGross ==
    ReportComplete =>
        /\ out.net_seen = out.gross_seen
        /\ ReportedDiscount(out)
             = Some(SetSum(out.net_seen,
                           LAMBDA id : ItemValue(committed, id) - TotalOf(committed, id)))

\* C29 as amended: each of the two queries reads the sales committed when it
\* runs. The later one (gross in the PDF report, net in the exporter) read
\* every sale the earlier one read, and what it read besides are sales
\* committed after those; the discount of the PDF report is that of the sales
\* both queries read plus the whole item value of the sales only the gross
\* query read.
C29_EachQueryReadsCommitted ==
    ReportComplete =>
        LET both == out.net_seen \cap out.gross_seen
            only_gross == out.gross_seen \ out.net_seen
            only_net == out.net_seen \ out.gross_seen
        IN  /\ out.consumer = "pdf" =>
                  /\ only_net = {}
                  /\ out.discounts
                       = Some(SetSum(both, LAMBDA id : ItemValue(committed, id)
                                                        - TotalOf(committed, id))
                              + SetSum(only_gross, LAMBDA id : ItemValue(committed, id)))
            /\ out.consumer = "excel" => only_gross = {}
            /\ out.net_seen \cup out.gross_seen \subseteq Ids(Range(committed.sales))
            /\ \A later \in only_gross \cup only_net, earlier \in both : later > earlier

\* a PDF report is complete whose gross query read a sale that its net query
\* had not read, besides a sale both read
C29_Witness ==
    /\ ReportComplete
    /\ out.consumer = "pdf"
    /\ out.net_seen # {}
    /\ out.gross_seen # out.net_seen

====
